---- MODULE Spec2Model ----
(***************************************************************************)
(* A model of CCTranslationTool (src/translator_app.py): the lifecycle     *)
(* controller (start / stop / reboot), the request worker with its lazily  *)
(* constructed translator, the copy path and the DoubleCopyDetector.       *)
(*                                                                         *)
(* Time is counted in ticks of 0.05 s, so that every interval of the       *)
(* program and of its tests is a whole number of ticks.                    *)
(***************************************************************************)
EXTENDS Integers, Sequences, FiniteSets, TLC

VARIABLES
    \* ---- CCTranslationApp: lifecycle ----
    mainPc,              \* position of the thread running start()
    stop_event,          \* self._stop_event
    restart_event,       \* self._restart_event
    hotkey_bindings,     \* self._hotkey_bindings is not empty
    hotkey_service,      \* self._hotkey_service: 0 is None, else the instance number
    nService,            \* capture services created so far
    tray_running,        \* the tray controller is started
    ctlPc,               \* position of the tray-menu thread inside stop() / reboot()
    callsLeft,           \* stop() / reboot() calls still to be made in this behaviour
    stopArmed,           \* history: stop() was called while start() ran, no reboot() called since
    rebootArmed,         \* history: reboot() was called while start() ran, no stop() called since
    \* ---- dispatcher thread and its channel ----
    hotkey_dispatcher,   \* "none", "alive" or "dead"
    hotkey_event_queue,  \* self._hotkey_event_queue
    \* ---- translator handle ----
    translator,          \* self._translator: 0 is None, else the instance number
    translator_lock,     \* holder of self._translator_lock: 0 free, w > 0 worker thread w, -1 reboot()
    nCtor,               \* translator_factory calls so far; a call's number names its instance
    \* ---- request queue and worker threads ----
    request_queue,       \* self._request_queue
    worker_thread,       \* self._worker_thread: 0 is None, else the thread number
    wpc,                 \* position of every worker thread
    wreq,                \* the request a worker thread is processing
    wtr,                 \* the translator instance a worker thread obtained
    nCrash,              \* worker threads ended by an exception so far
    last_original_text,  \* self._last_original_text
    source_language,     \* self.source_language
    dest_language,       \* self.dest_language
    language_options,    \* self._language_options
    ui,                  \* the language-change handler the window's thread is running or ran last
    \* ---- history of the worker ----
    nEnq,                \* requests enqueued so far; a request's number is its enqueue rank
    enqueued,            \* the requests in the order they were enqueued
    taken,               \* request numbers in the order the workers took them
    calls,               \* translate calls started
    rendered,            \* render calls made
    outcome,             \* per request number: "none", "ok", "terr" or "crash"
    \* ---- history of the translator handle ----
    resetMark,           \* nCtor at the latest _reset_translator
    returnedMark,        \* resetMark of the latest reboot() that returned
    builtSinceReset,     \* instances constructed since the latest reset
    rbSawCtor,           \* the construction in progress when the latest reboot() was called, else 0
    \* ---- copy path (DoubleCopyDetector, trigger guard, clipboard) ----
    det,                 \* self._copy_detector: [last, count]
    required_count,      \* DoubleCopyDetector.required_count
    interval,            \* DoubleCopyDetector.interval, in ticks
    lastResult,          \* result of the latest register call: "none", "pending", "completed"
    chain,               \* history: length of the unbroken within-interval sequence since construction
    prevReg,             \* history: timestamps of the previous and of the latest register call
    last_trigger_time,   \* self._last_trigger_time, in ticks
    copyLog,             \* history: timestamp and clipboard state of every copy event handled
    \* ---- history of the hotkey event channel ----
    channelLog,          \* the HotkeyEvents in the order they were put on the channel
    handledLog,          \* the HotkeyEvents in the order the dispatcher handled them
    \* ---- a RegisterHotKeyService examined alone ----
    svc,                 \* its fields, the position of its capture thread and of its caller
    \* ---- history of the main loop ----
    service_attempt,     \* how the latest iteration's capture service came up, and what was done
    \* ---- functions examined alone ----
    translate_call,      \* a call of GoogleTranslateClient.translate: its inputs and its outcome
    binding_call,        \* a call of build_hotkey_binding: its inputs and its outcome
    \* ---- state-dump action ----
    state_dump_detector,     \* self._state_dump_detector: [last, count]; unused when the press count is 1
    state_dump_press_count,  \* self._state_dump_press_count
    nDumps,                  \* history: state dumps logged so far
    nHandlerErrors,          \* history: exceptions of a handler the dispatcher has logged
    \* ---- threads ----
    dispatchers,             \* the dispatcher threads: how many are alive, how many were started
    capture_threads,         \* the services (by number) whose capture thread is alive
    copy_read                \* the copy handler between its reads of the language pair

vars == << mainPc, stop_event, restart_event, hotkey_bindings, hotkey_service, nService, tray_running,
           ctlPc, callsLeft, stopArmed, rebootArmed, hotkey_dispatcher, hotkey_event_queue,
           translator, translator_lock, nCtor, request_queue, worker_thread,
           wpc, wreq, wtr, nCrash, last_original_text, source_language, dest_language,
           language_options, ui,
           nEnq, enqueued, taken, calls, rendered, outcome,
           resetMark, returnedMark, builtSinceReset, rbSawCtor,
           det, required_count, interval, lastResult, chain, prevReg,
           last_trigger_time, copyLog, channelLog, handledLog, svc, service_attempt,
           translate_call, binding_call,
           state_dump_detector, state_dump_press_count, nDumps, nHandlerErrors,
           dispatchers, capture_threads, copy_read >>

lifeVars == << mainPc, stop_event, restart_event, hotkey_bindings, hotkey_service, nService, tray_running,
               ctlPc, callsLeft, stopArmed, rebootArmed, hotkey_dispatcher, hotkey_event_queue >>
handleVars == << translator, translator_lock, nCtor, resetMark, returnedMark,
                 builtSinceReset, rbSawCtor >>
workVars == << request_queue, worker_thread, wpc, wreq, wtr, nCrash, last_original_text,
               nEnq, enqueued, taken, calls, rendered, outcome >>
langVars == << source_language, dest_language, language_options, ui >>
detVars == << det, required_count, interval, lastResult, chain, prevReg,
             last_trigger_time, copyLog >>
dispVars == << channelLog, handledLog >>
svcVars == << svc >>
attemptVars == << service_attempt >>
pureVars == << translate_call, binding_call >>
routeVars == << state_dump_detector, state_dump_press_count, nDumps, nHandlerErrors >>
concVars == << dispatchers, capture_threads, copy_read >>

\* ---- bounds of the model ----
MaxReq == 2          \* requests enqueued in one behaviour
MaxCalls == 3        \* stop() / reboot() calls in one behaviour of the lifecycle
MaxReboots == 1      \* reboot() calls in one behaviour of the worker pipeline
MaxCrash == 1        \* worker threads ended by an exception in one behaviour
MaxRequired == 3     \* largest required_count of a detector examined alone
MaxInterval == 2     \* largest interval, in ticks, of a detector examined alone
MaxTime == 5         \* largest timestamp, in ticks, given to a detector examined alone
MaxEvents == 2       \* copy events handled in one behaviour of the copy path
MaxLoopCrash == 1    \* crashes of the capture thread's loop in one behaviour
MaxHotkeys == 2      \* HotkeyEvents put on the event channel in one behaviour
MaxPresses == 4      \* copy events handled in one behaviour of a failed sequence and its sequel
MaxModifiers == 2    \* modifier tokens in one typed chord
MaxControl == 2      \* stop() / reboot() calls in one behaviour beside the workers
MaxStops == 1        \* stop() calls in one behaviour of a shutdown
MaxMessages == 1     \* HotkeyEvents one capture service puts in one behaviour
MaxRouted == 3       \* HotkeyEvents of any name put on the event channel in one behaviour

\* ---- constants of the program, in ticks of 0.05 s ----
DOUBLE_COPY_INTERVAL == 5         \* 0.25 s
MIN_TRIGGER_INTERVAL == 3         \* 0.15 s
TestDoubleCopyInterval == 10      \* 0.5 s, the interval the tests construct the app with
TestShortAdvance == 2             \* 0.1 s, between the two copies of the double-copy test
TestLongAdvance == 20             \* 1.0 s, between the two copies of the reset test

None == "None"
Hello == << "h", "e", "l", "l", "o" >>
Threads == 1 .. (MaxCrash + 1)

\* ---------------------------------------------------------------------------
\* Collaborators reached through their interface.

\* translate(text, src, dest) returning: the translated text and the detected source.
TranslatedText(text, dest) == << "translated", text, dest >>
DetectedSource(src) == IF src = None THEN "en" ELSE src
\* str(exc) of the TranslationError a translator raises.
ErrorMessage == "boom"
\* f"Error during translation: {exc}"
ErrorText(msg) == << "Error during translation: ", msg >>

\* What a call into a collaborator can do: return, raise TranslationError, or
\* raise another exception.
Outcomes == { "ok", "terr", "other" }

\* ---------------------------------------------------------------------------
\* CCTranslationApp.start: the main loop.

MStart ==
    /\ mainPc = "idle"
    /\ mainPc' = "ensure"
    /\ UNCHANGED << stop_event, restart_event, hotkey_bindings, hotkey_service, nService, tray_running,
                    ctlPc, callsLeft, stopArmed, rebootArmed, hotkey_dispatcher, hotkey_event_queue >>
    /\ UNCHANGED << handleVars, workVars, langVars, dispVars, svcVars, attemptVars, pureVars, routeVars, concVars, detVars >>

\* A thread object is alive once started and until its target returns or raises.
WorkerAlive(w) == w # 0 /\ wpc[w] \notin { "unborn", "dead" }

\* (mutant) a worker thread is started in every iteration of the main loop.
AlwaysStartsWorker == TRUE

\* _ensure_background_threads decides whether to start a worker thread.
NeedsWorker == worker_thread = 0 \/ ~WorkerAlive(worker_thread)

\* (mutant) a dispatcher thread is started in every iteration of the main loop.
AlwaysStartsDispatcher == TRUE

\* _ensure_background_threads decides whether to start a dispatcher thread.
NeedsDispatcher == hotkey_dispatcher # "alive"

NextThread == Cardinality({ w \in Threads : wpc[w] # "unborn" }) + 1

MEnsure ==
    /\ mainPc = "ensure"
    /\ IF NeedsWorker
          THEN /\ worker_thread' = NextThread
               /\ wpc' = [wpc EXCEPT ![NextThread] = "get"]
          ELSE UNCHANGED << worker_thread, wpc >>
    /\ hotkey_dispatcher' = IF NeedsDispatcher THEN "alive" ELSE hotkey_dispatcher
    /\ dispatchers' = IF NeedsDispatcher
                         THEN [ alive |-> dispatchers.alive + 1, started |-> dispatchers.started + 1 ]
                         ELSE dispatchers
    /\ mainPc' = "service"
    /\ UNCHANGED << stop_event, restart_event, hotkey_bindings, hotkey_service, nService, tray_running,
                    ctlPc, callsLeft, stopArmed, rebootArmed, hotkey_event_queue >>
    /\ UNCHANGED << request_queue, wreq, wtr, nCrash, last_original_text,
                    nEnq, enqueued, taken, calls, rendered, outcome >>
    /\ UNCHANGED << handleVars, langVars, dispVars, svcVars, attemptVars, pureVars, routeVars, detVars,
                    capture_threads, copy_read >>

\* _create_hotkey_service returns None without bindings; else the factory or the
\* service's start() may raise.
ServiceOutcomes == IF hotkey_bindings THEN { "ok", "create_fails", "start_fails" }
                                      ELSE { "create_fails" }

\* (mutant) a service whose start() raised stays in self._hotkey_service.
KeptAfterFailure(res, n) == IF res = "create_fails" THEN 0 ELSE n

\* self._hotkey_service once the iteration has tried to bring a service up: the
\* started service, or None when the factory raised or start() raised.
ServiceAfterAttempt(res, n) == IF res = "ok" THEN n ELSE 0

\* Before the first iteration of the main loop.
NoAttempt == [ res |-> "none", stopped |-> FALSE ]

\* The capture threads alive after stop() of service n: stop() joins the thread
\* for 5 s and returns whether or not it has ended (joined says it has).
AfterServiceStop(threads, n, joined) == IF joined THEN threads \ { n } ELSE threads

\* _create_hotkey_service, the service's start() and the tray's start().  When
\* start() raises (the capture thread was not ready within 10 s), the except
\* clause calls the service's stop().
MService ==
    /\ mainPc = "service"
    /\ \E res \in ServiceOutcomes :
          /\ nService' = IF res = "create_fails" THEN nService ELSE nService + 1
          /\ hotkey_service' = ServiceAfterAttempt(res, nService + 1)
          /\ service_attempt' = [ res |-> res, stopped |-> res = "start_fails" ]
          /\ \E joined \in BOOLEAN :
                capture_threads' =
                    CASE res = "ok" -> capture_threads \cup { nService + 1 }
                      [] res = "start_fails" ->
                            AfterServiceStop(capture_threads \cup { nService + 1 },
                                             nService + 1, joined)
                      [] OTHER -> capture_threads
    /\ tray_running' = TRUE
    /\ mainPc' = "wait"
    /\ UNCHANGED << stop_event, restart_event, hotkey_bindings, ctlPc, callsLeft, stopArmed, rebootArmed,
                    hotkey_dispatcher, hotkey_event_queue >>
    /\ UNCHANGED << handleVars, workVars, langVars, dispVars, svcVars, pureVars, routeVars, detVars,
                    dispatchers, copy_read >>

\* self._stop_event.wait()
MWait ==
    /\ mainPc = "wait"
    /\ stop_event
    /\ mainPc' = "finally"
    /\ UNCHANGED << stop_event, restart_event, hotkey_bindings, hotkey_service, nService, tray_running,
                    ctlPc, callsLeft, stopArmed, rebootArmed, hotkey_dispatcher, hotkey_event_queue >>
    /\ UNCHANGED << handleVars, workVars, langVars, dispVars, svcVars, attemptVars, pureVars, routeVars, concVars, detVars >>

MFinally ==
    /\ mainPc = "finally"
    /\ tray_running' = FALSE
    /\ hotkey_service' = 0
    /\ \E joined \in BOOLEAN :
          capture_threads' = IF hotkey_service # 0
                                THEN AfterServiceStop(capture_threads, hotkey_service, joined)
                                ELSE capture_threads
    /\ mainPc' = "check"
    /\ UNCHANGED << stop_event, restart_event, hotkey_bindings, nService, ctlPc, callsLeft, stopArmed, rebootArmed,
                    hotkey_dispatcher, hotkey_event_queue >>
    /\ UNCHANGED << handleVars, workVars, langVars, dispVars, svcVars, attemptVars, pureVars, routeVars, detVars,
                    dispatchers, copy_read >>

\* The capture thread of a service that stop() gave up joining ends: _running is
\* clear, so its loop and its pump end.
CaptureThreadEnds ==
    /\ \E n \in capture_threads :
          /\ n # hotkey_service
          /\ capture_threads' = capture_threads \ { n }
    /\ UNCHANGED << lifeVars, handleVars, workVars, langVars, dispVars, svcVars, attemptVars, pureVars, routeVars, detVars,
                    dispatchers, copy_read >>

\* if self._restart_event.is_set():
MCheck ==
    /\ mainPc = "check"
    /\ mainPc' = IF restart_event THEN "clear_restart" ELSE "done"
    /\ UNCHANGED << stop_event, restart_event, hotkey_bindings, hotkey_service, nService, tray_running,
                    ctlPc, callsLeft, stopArmed, rebootArmed, hotkey_dispatcher, hotkey_event_queue >>
    /\ UNCHANGED << handleVars, workVars, langVars, dispVars, svcVars, attemptVars, pureVars, routeVars, concVars, detVars >>

MClearRestart ==
    /\ mainPc = "clear_restart"
    /\ restart_event' = FALSE
    /\ mainPc' = "clear_stop"
    /\ UNCHANGED << stop_event, hotkey_bindings, hotkey_service, nService, tray_running,
                    ctlPc, callsLeft, stopArmed, rebootArmed, hotkey_dispatcher, hotkey_event_queue >>
    /\ UNCHANGED << handleVars, workVars, langVars, dispVars, svcVars, attemptVars, pureVars, routeVars, concVars, detVars >>

MClearStop ==
    /\ mainPc = "clear_stop"
    /\ stop_event' = FALSE
    /\ mainPc' = "ensure"
    /\ UNCHANGED << restart_event, hotkey_bindings, hotkey_service, nService, tray_running,
                    ctlPc, callsLeft, stopArmed, rebootArmed, hotkey_dispatcher, hotkey_event_queue >>
    /\ UNCHANGED << handleVars, workVars, langVars, dispVars, svcVars, attemptVars, pureVars, routeVars, concVars, detVars >>

StartRunning == mainPc \notin { "idle", "done" }

\* ---------------------------------------------------------------------------
\* CCTranslationApp.stop, called from the tray menu's thread.

StopCall ==
    /\ ctlPc = "idle"
    /\ callsLeft > 0
    /\ callsLeft' = callsLeft - 1
    /\ restart_event' = FALSE
    /\ stopArmed' = StartRunning
    /\ rebootArmed' = FALSE
    /\ ctlPc' = "st_set"
    /\ UNCHANGED << mainPc, stop_event, hotkey_bindings, hotkey_service, nService, tray_running,
                    hotkey_dispatcher, hotkey_event_queue >>
    /\ UNCHANGED << handleVars, workVars, langVars, dispVars, svcVars, attemptVars, pureVars, routeVars, concVars, detVars >>

StopSet ==
    /\ ctlPc = "st_set"
    /\ stop_event' = TRUE
    /\ ctlPc' = "st_put"
    /\ UNCHANGED << mainPc, restart_event, hotkey_bindings, hotkey_service, nService, tray_running,
                    callsLeft, stopArmed, rebootArmed, hotkey_dispatcher, hotkey_event_queue >>
    /\ UNCHANGED << handleVars, workVars, langVars, dispVars, svcVars, attemptVars, pureVars, routeVars, concVars, detVars >>

\* The None that stop() puts on the event channel, in the shape of a HotkeyEvent.
StopSentinel == [ id |-> 0, name |-> None, timestamp |-> 0 ]

\* (mutant) the sentinel goes to the head of the channel.
SentinelFirst(q) == << StopSentinel >> \o q

\* self._hotkey_event_queue.put(None)
SentinelPut(q) == Append(q, StopSentinel)

StopPut ==
    /\ ctlPc = "st_put"
    /\ hotkey_event_queue' = IF hotkey_dispatcher = "alive"
                                THEN SentinelPut(hotkey_event_queue)
                                ELSE hotkey_event_queue
    /\ ctlPc' = "idle"
    /\ UNCHANGED << mainPc, stop_event, restart_event, hotkey_bindings, hotkey_service, nService,
                    tray_running, callsLeft, stopArmed, rebootArmed, hotkey_dispatcher >>
    /\ UNCHANGED << handleVars, workVars, langVars, dispVars, svcVars, attemptVars, pureVars, routeVars, concVars, detVars >>

\* ---------------------------------------------------------------------------
\* CCTranslationApp.reboot, called from the tray menu's thread.

ConstructionInProgress == \E w \in Threads : wpc[w] = "factory"

RebootCall ==
    /\ ctlPc = "idle"
    /\ callsLeft > 0
    /\ callsLeft' = callsLeft - 1
    /\ stopArmed' = FALSE
    /\ rebootArmed' = StartRunning
    /\ rbSawCtor' = IF ConstructionInProgress THEN nCtor ELSE 0
    /\ ctlPc' = "rb_reset"
    /\ UNCHANGED << mainPc, stop_event, restart_event, hotkey_bindings, hotkey_service, nService,
                    tray_running, hotkey_dispatcher, hotkey_event_queue >>
    /\ UNCHANGED << translator, translator_lock, nCtor, resetMark, returnedMark,
                    builtSinceReset >>
    /\ UNCHANGED << workVars, langVars, dispVars, svcVars, attemptVars, pureVars, routeVars, concVars, detVars >>

\* (mutant) _reset_translator assigns without taking the lock.
ResetWithoutLock == TRUE

\* "with self._translator_lock:" of _reset_translator can be entered.
ResetMayEnter == translator_lock = 0

\* (mutant) _reset_translator leaves the cached instance in place.
KeptHandle == translator

\* "self._translator = None": the value _reset_translator assigns.
ClearedHandle == 0

\* _reset_translator
RebootReset ==
    /\ ctlPc = "rb_reset"
    /\ ResetMayEnter
    /\ translator' = ClearedHandle
    /\ resetMark' = nCtor
    /\ builtSinceReset' = 0
    /\ ctlPc' = "rb_restart"
    /\ UNCHANGED << translator_lock, nCtor, returnedMark, rbSawCtor >>
    /\ UNCHANGED << mainPc, stop_event, restart_event, hotkey_bindings, hotkey_service, nService,
                    tray_running, callsLeft, stopArmed, rebootArmed, hotkey_dispatcher,
                    hotkey_event_queue >>
    /\ UNCHANGED << workVars, langVars, dispVars, svcVars, attemptVars, pureVars, routeVars, concVars, detVars >>

RebootSetRestart ==
    /\ ctlPc = "rb_restart"
    /\ restart_event' = TRUE
    /\ ctlPc' = "rb_stop"
    /\ UNCHANGED << mainPc, stop_event, hotkey_bindings, hotkey_service, nService, tray_running,
                    callsLeft, stopArmed, rebootArmed, hotkey_dispatcher, hotkey_event_queue >>
    /\ UNCHANGED << handleVars, workVars, langVars, dispVars, svcVars, attemptVars, pureVars, routeVars, concVars, detVars >>

RebootSetStop ==
    /\ ctlPc = "rb_stop"
    /\ stop_event' = TRUE
    /\ returnedMark' = resetMark
    /\ ctlPc' = "idle"
    /\ UNCHANGED << mainPc, restart_event, hotkey_bindings, hotkey_service, nService, tray_running,
                    callsLeft, stopArmed, rebootArmed, hotkey_dispatcher, hotkey_event_queue >>
    /\ UNCHANGED << translator, translator_lock, nCtor, resetMark, builtSinceReset,
                    rbSawCtor >>
    /\ UNCHANGED << workVars, langVars, dispVars, svcVars, attemptVars, pureVars, routeVars, concVars, detVars >>

\* ---------------------------------------------------------------------------
\* _dispatch_hotkey_events: the dispatcher thread takes the stop sentinel.

DispatchSentinel ==
    /\ hotkey_dispatcher = "alive"
    /\ hotkey_event_queue # << >>
    /\ Head(hotkey_event_queue) = StopSentinel
    /\ hotkey_event_queue' = Tail(hotkey_event_queue)
    /\ hotkey_dispatcher' = "dead"
    /\ dispatchers' = [ dispatchers EXCEPT !.alive = dispatchers.alive - 1 ]
    /\ UNCHANGED << mainPc, stop_event, restart_event, hotkey_bindings, hotkey_service, nService,
                    tray_running, ctlPc, callsLeft, stopArmed, rebootArmed >>
    /\ UNCHANGED << handleVars, workVars, langVars, dispVars, svcVars, attemptVars, pureVars, routeVars, detVars,
                    capture_threads, copy_read >>

\* ---------------------------------------------------------------------------
\* Producers of the request queue.  A request's seq is its enqueue rank (history).

TranslationRequest(text, src, dest, reposition) ==
    [ seq |-> nEnq + 1, text |-> text, src |-> src, dest |-> dest,
      reposition |-> reposition ]

\* "if not text or not dest: return" of _enqueue_retranslation.
WillEnqueue(text, dest) == text # None /\ text # << >> /\ dest # None /\ dest # ""

\* Requests that a language-change handler past its locked section is about to put.
PendingPuts == IF ui.pc = "put" /\ WillEnqueue(ui.last_text, ui.dest) THEN 1 ELSE 0

\* The copy path's self._request_queue.put(TranslationRequest(text, src, dest)).
PutCopyOf(text) ==
    /\ nEnq + PendingPuts < MaxReq
    /\ request_queue' = Append(request_queue,
                               TranslationRequest(text, source_language, dest_language, TRUE))
    /\ enqueued' = Append(enqueued,
                          TranslationRequest(text, source_language, dest_language, TRUE))
    /\ nEnq' = nEnq + 1
    /\ UNCHANGED << worker_thread, wpc, wreq, wtr, nCrash, last_original_text,
                    taken, calls, rendered, outcome >>
    /\ UNCHANGED << lifeVars, handleVars, langVars, dispVars, svcVars, attemptVars, pureVars, routeVars, concVars, detVars >>

PutCopy == PutCopyOf(Hello)

\* The texts copied while a language is changed: two that differ, taken in turn
\* by the rank of the request.
World == << "w", "o", "r", "l", "d" >>
CopiedTexts == << World, Hello >>

PutCopiedText == PutCopyOf(CopiedTexts[(nEnq % Len(CopiedTexts)) + 1])

\* The copy handler is not between its two reads.
NoCopyRead == [ pc |-> "idle", text |-> << >>, src |-> None, seen |-> { } ]

\* The copy path's put statement by statement.  The handler has left the lock
\* (1038-1045), pasted and stripped a text; the arguments of TranslationRequest
\* are evaluated from left to right, first self.source_language ...
CopyReadSource ==
    /\ copy_read.pc = "idle"
    /\ nEnq + PendingPuts < MaxReq
    /\ copy_read' = [ pc |-> "dest", text |-> Hello, src |-> source_language,
                      seen |-> { << source_language, dest_language >> } ]
    /\ UNCHANGED << lifeVars, handleVars, workVars, langVars, dispVars, svcVars, attemptVars, pureVars, routeVars, detVars,
                    dispatchers, capture_threads >>

\* ... then self.dest_language, and the request is put.
CopyPutRequest ==
    /\ copy_read.pc = "dest"
    /\ request_queue' = Append(request_queue,
                               TranslationRequest(copy_read.text, copy_read.src,
                                                  dest_language, TRUE))
    /\ enqueued' = Append(enqueued,
                          TranslationRequest(copy_read.text, copy_read.src,
                                             dest_language, TRUE))
    /\ nEnq' = nEnq + 1
    /\ copy_read' = NoCopyRead
    /\ UNCHANGED << worker_thread, wpc, wreq, wtr, nCrash, last_original_text,
                    taken, calls, rendered, outcome >>
    /\ UNCHANGED << lifeVars, handleVars, langVars, dispVars, svcVars, attemptVars, pureVars, routeVars, detVars,
                    dispatchers, capture_threads >>

\* _enqueue_retranslation(last_text, src, dest) of a language-change handler.
PutRetranslation ==
    /\ nEnq < MaxReq
    /\ last_original_text # None
    /\ request_queue' = Append(request_queue,
                               TranslationRequest(last_original_text, source_language,
                                                  dest_language, FALSE))
    /\ enqueued' = Append(enqueued,
                          TranslationRequest(last_original_text, source_language,
                                             dest_language, FALSE))
    /\ nEnq' = nEnq + 1
    /\ UNCHANGED << worker_thread, wpc, wreq, wtr, nCrash, last_original_text,
                    taken, calls, rendered, outcome >>
    /\ UNCHANGED << lifeVars, handleVars, langVars, dispVars, svcVars, attemptVars, pureVars, routeVars, concVars, detVars >>

\* ---------------------------------------------------------------------------
\* The language-change handlers, called one at a time by the window's thread.

LANGUAGE_SEQUENCE == << "ja", "en" >>
\* The choices the window's menus offer for the source and the destination.
SourceChoices == { None, "ja", "en" }
DestChoices == { "ja", "en" }

\* The truth value python gives a language: None and "" are false.
IsSet(language) == language # None /\ language # ""

\* self._language_options.index(x), or -1 where the code catches ValueError.
IndexOf(options, x) ==
    IF \E i \in 1 .. Len(options) : options[i] = x
       THEN (CHOOSE i \in 1 .. Len(options) :
                 options[i] = x /\ \A j \in 1 .. (i - 1) : options[j] # x) - 1
       ELSE -1

\* (mutant) the toggle leaves the pair as it is.
UntoggledPair(src, dest, options) == [ src |-> src, dest |-> dest ]

\* The language pair after _toggle_language: swapped when both are set, else the
\* destination moves to the next of the options.
ToggledPair(src, dest, options) ==
    IF IsSet(src) /\ IsSet(dest)
       THEN [ src |-> dest, dest |-> src ]
       ELSE [ src |-> src,
              dest |-> options[((IndexOf(options, dest) + 1) % Len(options)) + 1] ]

\* History: a copy handler between its reads records the pairs that the language
\* state has gone through since its first read.
Observed(r, src, dest) ==
    IF r.pc = "idle" THEN r ELSE [ r EXCEPT !.seen = r.seen \cup { << src, dest >> } ]

\* The section of a handler under self._lock: the pair is changed and last_text,
\* src and dest are read.
LockedSection(op, src, dest, options) ==
    /\ ui.pc = "idle"
    /\ nEnq < MaxReq
    /\ source_language' = src
    /\ dest_language' = dest
    /\ language_options' = options
    /\ ui' = [ pc |-> "put", op |-> op, old_src |-> source_language,
               old_dest |-> dest_language, last_text |-> last_original_text,
               src |-> src, dest |-> dest, put |-> << >> ]
    /\ copy_read' = Observed(copy_read, src, dest)
    /\ UNCHANGED << lifeVars, handleVars, workVars, detVars, dispVars, svcVars, attemptVars, pureVars, routeVars,
                    dispatchers, capture_threads >>

ToggleLanguage ==
    LockedSection("toggle",
                  ToggledPair(source_language, dest_language, language_options).src,
                  ToggledPair(source_language, dest_language, language_options).dest,
                  language_options)

SetDestLanguage ==
    \E language \in DestChoices :
        LockedSection("set_dest", source_language, language,
                      IF \E i \in 1 .. Len(language_options) : language_options[i] = language
                         THEN language_options
                         ELSE Append(language_options, language))

SetSourceLanguage ==
    \E language \in SourceChoices :
        LockedSection("set_source", language, dest_language, language_options)

\* (mutant) the retranslation is put as a clipboard-triggered request is.
RetranslationRepositions == TRUE

\* reposition of the request _enqueue_retranslation builds.
RetranslationReposition == FALSE

\* self._enqueue_retranslation(last_text, src, dest), after the lock is released.
EnqueueRetranslation ==
    /\ ui.pc = "put"
    /\ IF WillEnqueue(ui.last_text, ui.dest)
          THEN /\ request_queue' =
                    Append(request_queue,
                           TranslationRequest(ui.last_text, ui.src, ui.dest,
                                              RetranslationReposition))
               /\ enqueued' =
                    Append(enqueued,
                           TranslationRequest(ui.last_text, ui.src, ui.dest,
                                              RetranslationReposition))
               /\ nEnq' = nEnq + 1
               /\ ui' = [ ui EXCEPT !.pc = "idle",
                                    !.put = << TranslationRequest(ui.last_text, ui.src,
                                                                  ui.dest,
                                                                  RetranslationReposition) >> ]
          ELSE /\ UNCHANGED << request_queue, enqueued, nEnq >>
               /\ ui' = [ ui EXCEPT !.pc = "idle" ]
    /\ UNCHANGED << source_language, dest_language, language_options >>
    /\ UNCHANGED << worker_thread, wpc, wreq, wtr, nCrash, last_original_text,
                    taken, calls, rendered, outcome >>
    /\ UNCHANGED << lifeVars, handleVars, detVars, dispVars, svcVars, attemptVars, pureVars, routeVars, concVars >>

\* ---------------------------------------------------------------------------
\* _process_requests / _process_single_request, run by worker thread w.

\* request = self._request_queue.get(): the request the worker takes.
QueueGet(q) == Head(q)
QueueRest(q) == Tail(q)

WGet(w) ==
    /\ wpc[w] = "get"
    /\ request_queue # << >>
    /\ wreq' = [wreq EXCEPT ![w] = QueueGet(request_queue)]
    /\ request_queue' = QueueRest(request_queue)
    /\ taken' = Append(taken, QueueGet(request_queue).seq)
    /\ wpc' = [wpc EXCEPT ![w] = "record"]
    /\ UNCHANGED << worker_thread, wtr, nCrash, last_original_text, nEnq, enqueued, calls,
                    rendered, outcome >>
    /\ UNCHANGED << lifeVars, handleVars, langVars, dispVars, svcVars, attemptVars, pureVars, routeVars, concVars, detVars >>

\* (mutant) the worker leaves the last original text as it was.
TextKept(current, request) == current

\* self._last_original_text = request.text
TextRecorded(current, request) == request.text

\* with self._lock: self._last_original_text = request.text
WRecord(w) ==
    /\ wpc[w] = "record"
    /\ last_original_text' = TextRecorded(last_original_text, wreq[w])
    /\ wpc' = [wpc EXCEPT ![w] = "fetch"]
    /\ UNCHANGED << request_queue, worker_thread, wreq, wtr, nCrash, nEnq, enqueued, taken,
                    calls, rendered, outcome >>
    /\ UNCHANGED << lifeVars, handleVars, langVars, dispVars, svcVars, attemptVars, pureVars, routeVars, concVars, detVars >>

\* _render_translation(request, translated, detected_source)
Render(req, translated, detected) ==
    [ seq |-> req.seq, original |-> req.text, translated |-> translated,
      detected |-> detected, reposition |-> req.reposition ]

\* (mutant) the error is rendered without the request's source.
RenderErrorNoSource(req) == Render(req, ErrorText(ErrorMessage), None)

\* except TranslationError as exc: render the error text with request.src.
RenderError(req) == Render(req, ErrorText(ErrorMessage), req.src)

\* An exception other than TranslationError leaves _process_single_request and
\* _process_requests (try / finally, no except): the thread ends.
AfterOtherException == "dead"

\* The end of _process_single_request for request wreq[w], by what the translator
\* property or translate() did.
Finish(w, res) ==
    /\ res = "other" => nCrash < MaxCrash
    /\ nCrash' = IF res = "other" THEN nCrash + 1 ELSE nCrash
    /\ rendered' = CASE res = "ok"    -> Append(rendered,
                                                Render(wreq[w],
                                                       TranslatedText(wreq[w].text, wreq[w].dest),
                                                       DetectedSource(wreq[w].src)))
                     [] res = "terr"  -> Append(rendered, RenderError(wreq[w]))
                     [] res = "other" -> rendered
    /\ outcome' = [outcome EXCEPT ![wreq[w].seq] = IF res = "other" THEN "crash" ELSE res]
    /\ wpc' = [wpc EXCEPT ![w] = IF res = "other" THEN AfterOtherException ELSE "get"]

\* (mutant) the translator property constructs an instance at every use.
NeverCached == FALSE

\* The translator property may use the cached instance: self._translator is not None.
HasCached == translator # 0

\* The translator property: "with self._translator_lock:", the cached instance or
\* the start of translator_factory().
WFetch(w) ==
    /\ wpc[w] = "fetch"
    /\ translator_lock = 0
    /\ IF HasCached
          THEN /\ wtr' = [wtr EXCEPT ![w] = translator]
               /\ wpc' = [wpc EXCEPT ![w] = "call"]
               /\ UNCHANGED << translator_lock, nCtor >>
          ELSE /\ translator_lock' = w
               /\ nCtor' = nCtor + 1
               /\ wpc' = [wpc EXCEPT ![w] = "factory"]
               /\ UNCHANGED wtr
    /\ UNCHANGED << translator, resetMark, returnedMark, builtSinceReset, rbSawCtor >>
    /\ UNCHANGED << request_queue, worker_thread, wreq, nCrash, last_original_text,
                    nEnq, enqueued, taken, calls, rendered, outcome >>
    /\ UNCHANGED << lifeVars, langVars, dispVars, svcVars, attemptVars, pureVars, routeVars, concVars, detVars >>

\* translator_factory() returns or raises; the lock is released either way.
WFactoryReturn(w) ==
    /\ wpc[w] = "factory"
    /\ translator_lock' = 0
    /\ \E res \in Outcomes :
          IF res = "ok"
             THEN /\ translator' = nCtor
                  /\ wtr' = [wtr EXCEPT ![w] = nCtor]
                  /\ builtSinceReset' = builtSinceReset + 1
                  /\ wpc' = [wpc EXCEPT ![w] = "call"]
                  /\ UNCHANGED << nCrash, rendered, outcome >>
             ELSE /\ Finish(w, res)
                  /\ UNCHANGED << translator, wtr, builtSinceReset >>
    /\ UNCHANGED << nCtor, resetMark, returnedMark, rbSawCtor >>
    /\ UNCHANGED << request_queue, worker_thread, wreq, last_original_text,
                    nEnq, enqueued, taken, calls >>
    /\ UNCHANGED << lifeVars, langVars, dispVars, svcVars, attemptVars, pureVars, routeVars, concVars, detVars >>

\* translator.translate(request.text, src=request.src, dest=request.dest) starts,
\* on the instance the property returned.
WCall(w) ==
    /\ wpc[w] = "call"
    /\ calls' = Append(calls, [ seq |-> wreq[w].seq, text |-> wreq[w].text,
                                src |-> wreq[w].src, dest |-> wreq[w].dest,
                                inst |-> wtr[w], stale |-> wtr[w] <= returnedMark ])
    /\ wpc' = [wpc EXCEPT ![w] = "translating"]
    /\ UNCHANGED << request_queue, worker_thread, wreq, wtr, nCrash, last_original_text,
                    nEnq, enqueued, taken, rendered, outcome >>
    /\ UNCHANGED << lifeVars, handleVars, langVars, dispVars, svcVars, attemptVars, pureVars, routeVars, concVars, detVars >>

\* translate() returns or raises, and the result or the error is rendered.
WReturn(w) ==
    /\ wpc[w] = "translating"
    /\ \E res \in Outcomes : Finish(w, res)
    /\ UNCHANGED << request_queue, worker_thread, wreq, wtr, last_original_text,
                    nEnq, enqueued, taken, calls >>
    /\ UNCHANGED << lifeVars, handleVars, langVars, dispVars, svcVars, attemptVars, pureVars, routeVars, concVars, detVars >>

\* ---------------------------------------------------------------------------
\* DoubleCopyDetector

\* The detector as constructed: _last_time = 0.0, _count = 0.
NewDetector == [ last |-> 0, count |-> 0 ]

\* (mutant) the boundary of the window is exclusive.
StrictlyWithinInterval(d, t) == t - d.last < interval

\* "if current - self._last_time <= self.interval": the press continues the sequence.
WithinInterval(d, t) == t - d.last <= interval

\* (mutant) a press after a gap still continues the sequence.
CountedPressesIgnoringGap(d, t) == d.count + 1

\* self._count after the if / else of register, before the completion check.
CountedPresses(d, t) == IF WithinInterval(d, t) THEN d.count + 1 ELSE 1

\* (mutant) no count completes a sequence.
NeverCompletes(c) == FALSE

\* (mutant) the first press completes a sequence.
CompletesAtOnce(c) == c >= 1

\* "if self._count >= self.required_count"
Completes(c) == c >= required_count

\* register(timestamp=t): the detector afterwards and the value returned.
Register(d, t) ==
    [ det |-> [ last |-> t,
                count |-> IF Completes(CountedPresses(d, t)) THEN 0
                                                            ELSE CountedPresses(d, t) ],
      completed |-> Completes(CountedPresses(d, t)) ]

\* (mutant) reset() forgets the time of the last press but keeps the count.
ResetKeepingCount(d) == [ last |-> 0, count |-> d.count ]

\* (mutant) reset() leaves the detector as it is.
ResetLeavingDetector(d) == d

\* reset()
ResetDetector(d) == [ last |-> 0, count |-> 0 ]

ResultName(completed) == IF completed THEN "completed" ELSE "pending"

\* ---------------------------------------------------------------------------
\* A detector examined alone: register and reset with any timestamps.

\* History: the length of the sequence of register calls made on a fresh detector
\* (as constructed, or as reset() leaves it) in which every timestamp is at least
\* the previous one and at most interval after it; -1 once the sequence is broken
\* or has gone past required_count calls.
ChainAfter(t) ==
    IF chain = -1 \/ chain >= required_count THEN -1
    ELSE IF chain = 0 THEN 1
    ELSE IF t >= prevReg.cur /\ t - prevReg.cur <= interval THEN chain + 1
    ELSE -1

DetRegister ==
    \E t \in 0 .. MaxTime :
        /\ det' = Register(det, t).det
        /\ lastResult' = ResultName(Register(det, t).completed)
        /\ chain' = ChainAfter(t)
        /\ prevReg' = [ prev |-> prevReg.cur, cur |-> t ]
        /\ UNCHANGED << required_count, interval, last_trigger_time, copyLog >>
        /\ UNCHANGED << lifeVars, handleVars, workVars, langVars, dispVars, svcVars, attemptVars, pureVars, routeVars, concVars >>

DetReset ==
    /\ det' = ResetDetector(det)
    /\ lastResult' = "none"
    /\ chain' = 0
    /\ UNCHANGED << required_count, interval, prevReg, last_trigger_time, copyLog >>
    /\ UNCHANGED << lifeVars, handleVars, workVars, langVars, dispVars, svcVars, attemptVars, pureVars, routeVars, concVars >>

\* ---------------------------------------------------------------------------
\* The copy path: _handle_copy_event.

\* Texts are sequences of characters, so that strip() is computed.
IsSpace(c) == c \in { " ", "\t", "\n" }

RECURSIVE LStrip(_)
LStrip(s) == IF s # << >> /\ IsSpace(Head(s)) THEN LStrip(Tail(s)) ELSE s

RECURSIVE RStrip(_)
RStrip(s) == IF s # << >> /\ IsSpace(s[Len(s)]) THEN RStrip(SubSeq(s, 1, Len(s) - 1)) ELSE s

\* (mutant) the text is used as pasted.
Unstripped(s) == s

\* text.strip()
Strip(s) == RStrip(LStrip(s))

Blank == << " ", "\n" >>
Padded == << " ", "h", "i", " " >>
\* What self._clipboard.paste() does when called: it returns a text, or raises.
ClipStates == { [ raises |-> FALSE, text |-> x ] : x \in { Hello, Padded, Blank } }
                 \cup { [ raises |-> TRUE, text |-> << >> ] }

\* Timestamps of copy events, in ticks: the first one, and the time from one event
\* to the next.
Starts == { 0, 1, 6, 11 }
Gaps == { 0, 2, 3, 5, 6, 10, 20 }

\* "if current_time - self._last_trigger_time < self._min_trigger_interval: return"
\* (mutant) there is no minimum-trigger guard.
NeverTooSoon(t) == FALSE

\* "if current_time - self._last_trigger_time < self._min_trigger_interval"
TooSoon(t) == t - last_trigger_time < MIN_TRIGGER_INTERVAL

\* What one call of _handle_copy_event at time t does, for the log of copy events:
\* the detector has not completed, the minimum-trigger guard returned, the clipboard
\* read failed, the stripped text was empty, or a request was put.
CopyOutcome(r, t, clip) ==
    IF ~r.completed THEN "pending"
    ELSE IF TooSoon(t) THEN "toosoon"
    ELSE IF clip.raises THEN "failed"
    ELSE IF Strip(clip.text) = << >> THEN "blank"
    ELSE "enqueued"

\* The body of _handle_copy_event(timestamp=t) with the clipboard behaving as clip.
CopyEffect(t, clip) ==
    LET r == Register(det, t) IN
    /\ copyLog' = Append(copyLog,
                         [ t |-> t, clip |-> clip, did |-> CopyOutcome(r, t, clip),
                           put |-> IF CopyOutcome(r, t, clip) = "enqueued"
                                      THEN Strip(clip.text) ELSE << >> ])
    /\ lastResult' = ResultName(r.completed)
    /\ IF ~r.completed \/ TooSoon(t)
          THEN /\ det' = r.det
               /\ UNCHANGED << last_trigger_time, request_queue, enqueued, nEnq >>
          ELSE /\ last_trigger_time' = t
               /\ IF clip.raises
                     THEN /\ det' = ResetDetector(r.det)
                          /\ UNCHANGED << request_queue, enqueued, nEnq >>
                     ELSE /\ det' = r.det
                          /\ IF Strip(clip.text) # << >>
                                THEN /\ request_queue' =
                                          Append(request_queue,
                                                 TranslationRequest(Strip(clip.text),
                                                                    source_language,
                                                                    dest_language, TRUE))
                                     /\ enqueued' =
                                          Append(enqueued,
                                                 TranslationRequest(Strip(clip.text),
                                                                    source_language,
                                                                    dest_language, TRUE))
                                     /\ nEnq' = nEnq + 1
                                ELSE UNCHANGED << request_queue, enqueued, nEnq >>
    /\ UNCHANGED << required_count, interval, chain, prevReg >>
    /\ UNCHANGED << worker_thread, wpc, wreq, wtr, nCrash, last_original_text,
                    taken, calls, rendered, outcome >>

\* _handle_copy_event(), called directly at most max times, with the first
\* timestamp drawn from starts, the time between two calls from gaps and the
\* behaviour of the clipboard from clips.
HandleCopy(starts, gaps, clips, max) ==
    /\ Len(copyLog) < max
    /\ \E t \in { IF copyLog = << >> THEN s ELSE copyLog[Len(copyLog)].t + s :
                  s \in (IF copyLog = << >> THEN starts ELSE gaps) },
          clip \in clips :
          CopyEffect(t, clip)
    /\ UNCHANGED << lifeVars, handleVars, langVars, dispVars, svcVars, attemptVars, pureVars, routeVars, concVars >>

HandleCopyEvent == HandleCopy(Starts, Gaps, ClipStates, MaxEvents)

\* Copy events at the pace of the clipboard-error test and faster, long enough for
\* a failed sequence and the sequence after it.
PacedStarts == { 0, 11 }
PacedGaps == { 1, 2, 6 }
PacedClips == { [ raises |-> FALSE, text |-> Hello ], [ raises |-> FALSE, text |-> Blank ],
                [ raises |-> TRUE, text |-> << >> ] }

HandlePacedCopyEvent == HandleCopy(PacedStarts, PacedGaps, PacedClips, MaxPresses)

\* ---------------------------------------------------------------------------
\* The hotkey event channel: the capture service puts, the dispatcher takes.

\* The actions DEFAULT_HOTKEY_PREFERENCES binds a hotkey to.
HotkeyNames == { "copy", "state_dump" }

\* The time from one hotkey to the next: within the copy detector's interval, or not.
HotkeyGaps == { TestShortAdvance, TestLongAdvance }

\* HotkeyEvent(binding.name, timestamp); id is its rank on the channel (history).
HotkeyEvent(name, timestamp) ==
    [ id |-> Len(channelLog) + 1, name |-> name, timestamp |-> timestamp ]

\* _on_hotkey of the running capture service: put_nowait(HotkeyEvent(name, now)),
\* for a binding named in names, while fewer than max events have been put.
Capture(names, max) ==
    /\ hotkey_service # 0
    /\ Len(channelLog) < max
    /\ \E name \in names,
          t \in { IF channelLog = << >> THEN g ELSE channelLog[Len(channelLog)].timestamp + g :
                  g \in (IF channelLog = << >> THEN PacedStarts ELSE HotkeyGaps) } :
          /\ hotkey_event_queue' = Append(hotkey_event_queue, HotkeyEvent(name, t))
          /\ channelLog' = Append(channelLog, HotkeyEvent(name, t))
    /\ UNCHANGED << mainPc, stop_event, restart_event, hotkey_bindings, hotkey_service, nService,
                    tray_running, ctlPc, callsLeft, stopArmed, rebootArmed, hotkey_dispatcher >>
    /\ UNCHANGED << handleVars, workVars, langVars, detVars, handledLog, svcVars, attemptVars, pureVars, routeVars, concVars >>

CapturePut == Capture(HotkeyNames, MaxHotkeys)

\* (mutant) the dispatcher handles the first event and leaves it on the channel.
ChannelKept(q) == q

\* The channel after "event = self._hotkey_event_queue.get()".
ChannelRest(q) == Tail(q)

\* (mutant) the state-dump action registers its presses on the copy detector too.
CountedOnCopyDetector(d, t) == Register(d, t).det

\* The copy detector after _handle_state_dump_event(timestamp=t): the handler
\* names self._state_dump_detector only.
CopyDetectorAfterDump(d, t) == d

\* self._state_dump_detector.register(timestamp): register() of a detector that
\* needs state_dump_press_count presses.
DumpRegister(d, t) ==
    LET c == CountedPresses(d, t)
    IN  IF c >= state_dump_press_count
           THEN [ det |-> NewDetector, completed |-> TRUE ]
           ELSE [ det |-> [ last |-> t, count |-> c ], completed |-> FALSE ]

\* _handle_state_dump_event(timestamp): with a detector (press count above 1) the
\* press is registered and an incomplete sequence returns; then the state is
\* logged.  raised: reading the bindings of the service raises, the dump is not
\* logged and the exception reaches the dispatcher.
DumpEffect(t, raised) ==
    LET r == DumpRegister(state_dump_detector, t)
        gated == state_dump_press_count > 1
    IN  /\ state_dump_detector' = IF gated THEN r.det ELSE state_dump_detector
        /\ IF gated /\ ~r.completed
              THEN UNCHANGED << nDumps, nHandlerErrors >>
              ELSE IF raised
                      THEN nHandlerErrors' = nHandlerErrors + 1 /\ UNCHANGED nDumps
                      ELSE nDumps' = nDumps + 1 /\ UNCHANGED nHandlerErrors
        /\ UNCHANGED state_dump_press_count

\* (mutant) an exception of a handler ends the dispatcher thread.
DiesOnError(errors) == IF errors > nHandlerErrors THEN "dead" ELSE "alive"

\* The dispatcher after a handler has returned or raised: "except Exception" logs
\* and the loop goes on.
AfterHandler(errors) == "alive"

\* One round of _dispatch_hotkey_events for an event: get it and run
\* _process_hotkey_event, which routes by name; an unknown name is logged; an
\* exception of the handler is logged and the loop goes on.
DispatchEvent ==
    /\ hotkey_dispatcher = "alive"
    /\ hotkey_event_queue # << >>
    /\ Head(hotkey_event_queue) # StopSentinel
    /\ hotkey_event_queue' = ChannelRest(hotkey_event_queue)
    /\ handledLog' = Append(handledLog, Head(hotkey_event_queue))
    /\ CASE Head(hotkey_event_queue).name = "copy" ->
                /\ \E clip \in PacedClips :
                       CopyEffect(Head(hotkey_event_queue).timestamp, clip)
                /\ UNCHANGED routeVars
         [] Head(hotkey_event_queue).name = "state_dump" ->
                /\ \E raised \in BOOLEAN :
                       DumpEffect(Head(hotkey_event_queue).timestamp, raised)
                /\ det' = CopyDetectorAfterDump(det, Head(hotkey_event_queue).timestamp)
                /\ UNCHANGED << workVars, required_count, interval, lastResult, chain,
                                prevReg, last_trigger_time, copyLog >>
         [] OTHER -> UNCHANGED << workVars, detVars, routeVars >>
    /\ hotkey_dispatcher' = AfterHandler(nHandlerErrors')
    /\ UNCHANGED << mainPc, stop_event, restart_event, hotkey_bindings, hotkey_service, nService,
                    tray_running, ctlPc, callsLeft, stopArmed, rebootArmed >>
    /\ UNCHANGED << handleVars, langVars, channelLog, svcVars, attemptVars, pureVars, concVars >>

\* ---------------------------------------------------------------------------
\* RegisterHotKeyService (src/hotkey_manager.py): start(), stop(),
\* describe_bindings() and the capture thread running _run_message_loop.

\* The names of the bindings the service is constructed with.
Bindings == { "copy", "state_dump" }

\* f"{binding.name}: {binding.display}"
DisplayOf(b) == IF b = "copy" THEN "copy: Ctrl+C" ELSE "state_dump: F8"

\* No WM_HOTKEY message has been dispatched.
NoHotkey == [ id |-> 0, emitted |-> FALSE ]

\* The service as constructed.  thread is the position of the capture thread,
\* handle is "self._thread is not None", caller the position of the thread calling
\* start() or stop().  quit is a WM_QUIT pending for the capture thread, rereg the
\* state of a re-registration request ("posted" while it is in the message queue).
\* History: result and threadAtReturn are the outcome of the latest start() and
\* the capture thread's position when it returned; described and registeredThen
\* are the result of the latest describe_bindings() and the bindings registered
\* when it was called; crashed, stopCalled and stopReturned say that an exception
\* reached the except clause of the loop, that stop() was called, and that it
\* returned, since the latest start() that started a thread; failedThen is the
\* set of bindings whose registration failed in the latest pass of
\* _register_hotkeys, hotkey the id of the latest WM_HOTKEY dispatched and whether
\* an event was put for it.
NewService ==
    [ thread |-> "none", handle |-> FALSE, running |-> FALSE, ready |-> FALSE,
      hwnd |-> FALSE, id_map |-> { }, crashes |-> 0, crashed |-> FALSE,
      quit |-> FALSE, rereg |-> "none",
      caller |-> "idle", result |-> "none", threadAtReturn |-> "none",
      describeCalled |-> FALSE, described |-> { }, registeredThen |-> { },
      stopCalled |-> FALSE, stopReturned |-> FALSE,
      failedThen |-> { }, hotkey |-> NoHotkey ]

ThreadAlive == svc.thread \notin { "none", "ended" }

SvcFrame == UNCHANGED << lifeVars, handleVars, workVars, langVars, detVars, dispVars,
                         attemptVars, pureVars, routeVars, concVars >>

\* start(): returns at once if the capture thread is alive; else sets _running,
\* clears _ready, starts the thread and waits for _ready.  (A start() after a
\* stop() whose join timed out would run a second capture thread beside the
\* first: the model keeps one thread and leaves that call out.)
SvcStart ==
    /\ svc.caller = "idle"
    /\ IF svc.handle /\ ThreadAlive
          THEN svc' = [ svc EXCEPT !.result = "returned_at_once",
                                      !.threadAtReturn = svc.thread ]
          ELSE /\ ~ThreadAlive
               /\ svc' = [ svc EXCEPT !.running = TRUE, !.ready = FALSE, !.thread = "load",
                                      !.handle = TRUE, !.caller = "wait",
                                      !.quit = FALSE, !.rereg = "none", !.crashed = FALSE,
                                      !.result = "none", !.threadAtReturn = "none",
                                      !.stopCalled = FALSE, !.stopReturned = FALSE ]
    /\ SvcFrame

\* self._ready.wait(timeout=10) returns True: start() returns normally.
SvcStartReturns ==
    /\ svc.caller = "wait"
    /\ svc.ready
    /\ svc' = [ svc EXCEPT !.caller = "idle", !.result = "returned",
                           !.threadAtReturn = svc.thread ]
    /\ SvcFrame

\* The wait times out: start() raises RuntimeError.
SvcStartTimesOut ==
    /\ svc.caller = "wait"
    /\ ~svc.ready
    /\ svc' = [ svc EXCEPT !.caller = "idle", !.result = "raised" ]
    /\ SvcFrame

\* What stop() does after the join: self._thread = None; self._hwnd = None;
\* self._ready.clear().  _id_map is not touched.
AfterJoin(s) ==
    [ s EXCEPT !.caller = "idle", !.handle = FALSE, !.hwnd = FALSE, !.ready = FALSE,
               !.thread = IF s.thread = "ended" THEN "none" ELSE s.thread,
               !.stopReturned = TRUE ]

\* stop(): clears _running, posts WM_CLOSE if there is a window, and joins the
\* capture thread if there is one; on a service without a thread it goes
\* straight to the assignments after the join.
SvcStop ==
    /\ svc.caller = "idle"
    /\ LET s == [ svc EXCEPT !.running = FALSE, !.stopCalled = TRUE ]
       IN  svc' = IF svc.handle THEN [ s EXCEPT !.caller = "join" ] ELSE AfterJoin(s)
    /\ SvcFrame

\* self._thread.join(timeout=5) returns: the thread has ended, or the timeout
\* has passed with the thread still alive.
SvcStopReturns ==
    /\ svc.caller = "join"
    /\ svc' = AfterJoin(svc)
    /\ SvcFrame

\* The bindings that describe_bindings() lists: self._bindings.
DescribedBindings == Bindings

\* describe_bindings()
DescribeBindings ==
    /\ svc.caller = "idle"
    /\ svc' = [ svc EXCEPT !.describeCalled = TRUE,
                           !.described = { DisplayOf(b) : b \in DescribedBindings },
                           !.registeredThen = svc.id_map ]
    /\ SvcFrame

\* _load_win32_modules(): the imports succeed, or raise and the thread goes to
\* its finally block.
ThreadLoad ==
    /\ svc.thread = "load"
    /\ \E ok \in BOOLEAN :
          svc' = [ svc EXCEPT !.thread = IF ok THEN "loop" ELSE "finally" ]
    /\ SvcFrame

\* "while self._running.is_set():"
ThreadLoop ==
    /\ svc.thread = "loop"
    /\ svc' = [ svc EXCEPT !.thread = IF svc.running THEN "init" ELSE "finally" ]
    /\ SvcFrame

\* _initialize_window() returning: the window is created and every binding is
\* registered or fails on its own (_register_hotkeys): the loop adds the bindings
\* whose RegisterHotKey succeeded to _id_map and goes on after a failure.
\* History: failedThen is the set of bindings that failed in this pass.
Initialized(s, registered) ==
    [ s EXCEPT !.hwnd = TRUE, !.id_map = s.id_map \cup registered,
               !.failedThen = Bindings \ registered ]

\* _initialize_window(): succeeds, or the creation of the window raises.
ThreadInit ==
    /\ svc.thread = "init"
    /\ \/ \E registered \in SUBSET Bindings :
             svc' = [ Initialized(svc, registered) EXCEPT !.thread = "set_ready" ]
       \/ /\ svc.crashes < MaxLoopCrash
          /\ svc' = [ svc EXCEPT !.crashes = svc.crashes + 1, !.crashed = TRUE,
                                 !.thread = "except" ]
    /\ SvcFrame

\* self._ready.set() after the window is initialised.
ThreadSetReady ==
    /\ svc.thread = "set_ready"
    /\ svc' = [ svc EXCEPT !.ready = TRUE, !.thread = "pump" ]
    /\ SvcFrame

\* DestroyWindow(self._hwnd) sends WM_DESTROY to the window, whose handler
\* _on_destroy calls PostQuitMessage(0): a WM_QUIT is pending for the capture
\* thread from then on.  destroyed is FALSE when DestroyWindow raised.
DestroyPostsQuit(s, destroyed) == s.quit \/ (s.hwnd /\ destroyed)

\* (mutant) a teardown leaves the ids of the old window in the map.
KeptIdMap(m) == m

\* self._id_map.clear()
ClearedIdMap(m) == { }

\* _cleanup_window() on the capture thread: the hotkeys are unregistered and the
\* window destroyed (each failure swallowed), _hwnd = None, _id_map.clear().
CleanupWindow(s, destroyed) ==
    [ s EXCEPT !.hwnd = FALSE, !.id_map = ClearedIdMap(s.id_map),
               !.quit = DestroyPostsQuit(s, destroyed) ]

\* _pump_messages() ends: the loop sees _running cleared or _hwnd None, GetMessage
\* returns the WM_QUIT that is pending (after the WM_CLOSE of a stop(), or after a
\* window was destroyed), and the loop of _run_message_loop breaks; or a handler
\* raised.
ThreadPump ==
    /\ svc.thread = "pump"
    /\ \/ /\ ~svc.running \/ ~svc.hwnd \/ svc.quit
          /\ svc' = [ svc EXCEPT !.thread = "finally", !.quit = FALSE ]
       \/ /\ svc.crashes < MaxLoopCrash
          /\ svc' = [ svc EXCEPT !.crashes = svc.crashes + 1, !.crashed = TRUE,
                                 !.thread = "except" ]
    /\ SvcFrame

\* _on_language_change / _on_power_broadcast / _on_session_change dispatched by the
\* pump: _request_reregister() posts WM_APP_REREGISTER to the window, if any.
ThreadNotified ==
    /\ svc.thread = "pump"
    /\ svc.hwnd
    /\ svc.rereg # "posted"
    /\ svc' = [ svc EXCEPT !.rereg = "posted" ]
    /\ SvcFrame

\* _on_reregister_request dispatched by the pump: _cleanup_window(), then if
\* _running is set _initialize_window(), whose exception is logged and swallowed.
ThreadReregister ==
    /\ svc.thread = "pump"
    /\ svc.rereg = "posted"
    /\ \E destroyed \in BOOLEAN :
          LET s == CleanupWindow(svc, destroyed)
          IN  IF svc.running
                 THEN \/ \E registered \in SUBSET Bindings :
                            svc' = [ Initialized(s, registered) EXCEPT !.rereg = "done" ]
                      \/ svc' = [ s EXCEPT !.rereg = "failed" ]
                 ELSE svc' = [ s EXCEPT !.rereg = "skipped" ]
    /\ SvcFrame

\* The id _register_hotkeys gives a binding: enumerate(self._bindings, start=1).
BindingId(b) == IF b = "copy" THEN 1 ELSE 2

\* The ids a WM_HOTKEY message can carry: those of the bindings and another one.
HotkeyIds == { 1, 2, 3 }

\* self._id_map.get(wparam), as the set of bindings it can be (none or one).
BindingOf(s, wparam) == { b \in s.id_map : BindingId(b) = wparam }

\* _on_hotkey dispatched by the pump for a WM_HOTKEY carrying wparam: an id that
\* is not in _id_map puts nothing; otherwise HotkeyEvent(binding.name, now) is put
\* on the (unbounded) event queue.  History: hotkey records the message.
ThreadHotkey ==
    /\ svc.thread = "pump"
    /\ svc.hwnd
    /\ \E wparam \in HotkeyIds :
          LET t == IF channelLog = << >> THEN 0
                   ELSE channelLog[Len(channelLog)].timestamp + TestShortAdvance
          IN  IF BindingOf(svc, wparam) = { }
                 THEN /\ svc' = [ svc EXCEPT !.hotkey = [ id |-> wparam, emitted |-> FALSE ] ]
                      /\ UNCHANGED << hotkey_event_queue, channelLog >>
                 ELSE \E b \in BindingOf(svc, wparam) :
                         /\ Len(channelLog) < MaxMessages
                         /\ svc' = [ svc EXCEPT !.hotkey = [ id |-> wparam, emitted |-> TRUE ] ]
                         /\ hotkey_event_queue' = Append(hotkey_event_queue, HotkeyEvent(b, t))
                         /\ channelLog' = Append(channelLog, HotkeyEvent(b, t))
    /\ UNCHANGED << mainPc, stop_event, restart_event, hotkey_bindings, hotkey_service, nService,
                    tray_running, ctlPc, callsLeft, stopArmed, rebootArmed, hotkey_dispatcher >>
    /\ UNCHANGED << handleVars, workVars, langVars, detVars, handledLog, attemptVars, pureVars, routeVars, concVars >>

\* "except Exception": _cleanup_window(); break if not running, else sleep and retry.
ThreadExcept ==
    /\ svc.thread = "except"
    /\ \E destroyed \in BOOLEAN :
          svc' = [ CleanupWindow(svc, destroyed) EXCEPT
                      !.thread = IF svc.running THEN "loop" ELSE "finally" ]
    /\ SvcFrame

\* "finally": _cleanup_window(); self._ready.set(); self._running.clear().
ThreadFinally ==
    /\ svc.thread = "finally"
    /\ svc' = [ svc EXCEPT !.hwnd = FALSE, !.id_map = ClearedIdMap(svc.id_map), !.ready = TRUE,
                           !.running = FALSE, !.thread = "ended" ]
    /\ SvcFrame

\* ---------------------------------------------------------------------------
\* GoogleTranslateClient.translate (src/translation_service.py).

\* The classes of the exceptions that the calls made by translate can raise, each
\* with its base class in Python's hierarchy.
ExceptionBase(c) ==
    CASE c = "HTTPError" -> "URLError"
      [] c = "URLError" -> "OSError"
      [] c = "timeout" -> "OSError"
      [] c = "JSONDecodeError" -> "ValueError"
      [] c = "UnicodeDecodeError" -> "ValueError"
      [] c = "IndexError" -> "LookupError"
      [] c = "KeyError" -> "LookupError"
      [] c = "TranslationError" -> "RuntimeError"
      [] OTHER -> "Exception"

RECURSIVE IsSubclass(_, _)
IsSubclass(c, d) == c = d \/ (c # "Exception" /\ IsSubclass(ExceptionBase(c), d))

\* "except <classes>" catches the exception.
Catches(classes, exc) == \E d \in classes : IsSubclass(exc, d)

\* What urlopen() and response.read() can do: raise URLError or its subclass
\* HTTPError, raise socket.timeout, or deliver a payload.
Payloads == { "translated", "translated_no_source", "not_utf8", "not_json",
              "empty_array", "null", "object" }
HttpOutcomes == { "URLError", "HTTPError", "timeout" } \cup Payloads

\* The exception of json.loads(payload.decode("utf-8")), or None.
DecodeRaises(payload) ==
    CASE payload = "not_utf8" -> "UnicodeDecodeError"
      [] payload = "not_json" -> "JSONDecodeError"
      [] OTHER -> None

\* The exception of data[0], or None: [] has no element 0, null is not
\* subscriptable, an object has no key 0.
SegmentsRaises(payload) ==
    CASE payload = "empty_array" -> "IndexError"
      [] payload = "null" -> "TypeError"
      [] payload = "object" -> "KeyError"
      [] OTHER -> None

Raises(exc) == [ kind |-> "raised", exc |-> exc, text |-> << >>, detected |-> None ]
Returns(text, detected) ==
    [ kind |-> "returned", exc |-> None, text |-> text, detected |-> detected ]

\* An except clause: the exception is replaced by TranslationError if the
\* clause catches it, and propagates otherwise.
Handled(classes, exc) ==
    IF Catches(classes, exc) THEN Raises("TranslationError") ELSE Raises(exc)

\* The network errors that translate catches around urlopen.
NetworkErrors == { "URLError" }

\* translate(text, src, dest) when the HTTP call does what http says.
Translate(text, src, dest, http) ==
    IF text = << >> THEN Raises("TranslationError")
    ELSE IF http \notin Payloads THEN Handled(NetworkErrors, http)
    ELSE IF DecodeRaises(http) # None
            THEN Handled({ "JSONDecodeError" }, DecodeRaises(http))
    ELSE IF SegmentsRaises(http) # None
            THEN Handled({ "IndexError", "TypeError" }, SegmentsRaises(http))
    ELSE Returns(TranslatedText(text, dest),
                 IF http = "translated" THEN DetectedSource(src) ELSE None)

NoOutcome == [ kind |-> "none", exc |-> None, text |-> << >>, detected |-> None ]

NoTranslateCall ==
    [ text |-> << >>, src |-> None, dest |-> "ja", http |-> "translated",
      outcome |-> NoOutcome ]

TranslateInputs ==
    [ text : { << >>, Hello }, src : { None, "en" }, dest : { "ja", "en" },
      http : HttpOutcomes, outcome : { NoOutcome } ]

TranslateFrame ==
    UNCHANGED << lifeVars, handleVars, workVars, langVars, detVars, dispVars, svcVars,
                 attemptVars, routeVars, concVars >>

\* client.translate(text, src, dest)
TranslateCall ==
    /\ translate_call.outcome = NoOutcome
    /\ translate_call' =
          [ translate_call EXCEPT !.outcome =
               Translate(translate_call.text, translate_call.src, translate_call.dest,
                         translate_call.http) ]
    /\ UNCHANGED binding_call
    /\ TranslateFrame

\* ---------------------------------------------------------------------------
\* build_hotkey_binding (src/hotkey_manager.py).

\* The characters that str.upper() and str.lower() change, in matching order.
Lowers == << "a", "b", "c", "d", "e", "f", "g", "h", "i", "j", "k", "l", "m", "n", "o", "p", "q", "r", "s", "t", "u", "v", "w", "x", "y", "z" >>
Uppers == << "A", "B", "C", "D", "E", "F", "G", "H", "I", "J", "K", "L", "M", "N", "O", "P", "Q", "R", "S", "T", "U", "V", "W", "X", "Y", "Z" >>
Digits == << "0", "1", "2", "3", "4", "5", "6", "7", "8", "9" >>

\* The position of character c in seq, 0 if it is not there.
Position(seq, c) ==
    IF \E i \in 1 .. Len(seq) : seq[i] = c
       THEN CHOOSE i \in 1 .. Len(seq) : seq[i] = c
       ELSE 0

UpperChar(c) == IF Position(Lowers, c) > 0 THEN Uppers[Position(Lowers, c)] ELSE c
LowerChar(c) == IF Position(Uppers, c) > 0 THEN Lowers[Position(Uppers, c)] ELSE c

\* token.upper() and token.lower()
Upper(s) == [ i \in 1 .. Len(s) |-> UpperChar(s[i]) ]
Lower(s) == [ i \in 1 .. Len(s) |-> LowerChar(s[i]) ]

\* ord(c) of an upper-case letter or a digit.
Ord(c) == IF Position(Uppers, c) > 0 THEN 64 + Position(Uppers, c)
                                     ELSE 47 + Position(Digits, c)

\* s.isdigit()
IsDigit(s) == s # << >> /\ \A i \in 1 .. Len(s) : Position(Digits, s[i]) > 0

\* s.startswith(prefix)
StartsWith(s, prefix) == Len(s) >= Len(prefix) /\ SubSeq(s, 1, Len(prefix)) = prefix

\* The attributes of the win32con module that the parser reads: the modifier
\* flags and the virtual-key codes, each name with its value.
MOD_ALT == 1
MOD_CONTROL == 2
MOD_SHIFT == 4
MOD_WIN == 8
Win32con ==
    { << << "V", "K", "_", "E", "S", "C", "A", "P", "E" >>, 27 >>,
      << << "V", "K", "_", "T", "A", "B" >>, 9 >>,
      << << "V", "K", "_", "S", "P", "A", "C", "E" >>, 32 >>,
      << << "V", "K", "_", "R", "E", "T", "U", "R", "N" >>, 13 >>,
      << << "V", "K", "_", "B", "A", "C", "K" >>, 8 >>,
      << << "V", "K", "_", "D", "E", "L", "E", "T", "E" >>, 46 >>,
      << << "V", "K", "_", "H", "O", "M", "E" >>, 36 >>,
      << << "V", "K", "_", "E", "N", "D" >>, 35 >>,
      << << "V", "K", "_", "P", "R", "I", "O", "R" >>, 33 >>,
      << << "V", "K", "_", "N", "E", "X", "T" >>, 34 >>,
      << << "V", "K", "_", "L", "E", "F", "T" >>, 37 >>,
      << << "V", "K", "_", "U", "P" >>, 38 >>,
      << << "V", "K", "_", "R", "I", "G", "H", "T" >>, 39 >>,
      << << "V", "K", "_", "D", "O", "W", "N" >>, 40 >>,
      << << "V", "K", "_", "F", "1" >>, 112 >>,
      << << "V", "K", "_", "F", "8" >>, 119 >>,
      << << "V", "K", "_", "F", "1", "2" >>, 123 >> }

\* None where a key code is expected (every key code is positive).
NoKey == -1

\* _vk_constant(win32con, name): the attribute, or None.
VkConstant(name) ==
    IF \E e \in Win32con : e[1] = name
       THEN (CHOOSE e \in Win32con : e[1] = name)[2]
       ELSE NoKey

\* alias_map of _parse_virtual_key.
AliasMap ==
    { << << "E", "S", "C" >>, << "V", "K", "_", "E", "S", "C", "A", "P", "E" >> >>,
      << << "E", "S", "C", "A", "P", "E" >>, << "V", "K", "_", "E", "S", "C", "A", "P", "E" >> >>,
      << << "T", "A", "B" >>, << "V", "K", "_", "T", "A", "B" >> >>,
      << << "S", "P", "A", "C", "E" >>, << "V", "K", "_", "S", "P", "A", "C", "E" >> >>,
      << << "E", "N", "T", "E", "R" >>, << "V", "K", "_", "R", "E", "T", "U", "R", "N" >> >>,
      << << "R", "E", "T", "U", "R", "N" >>, << "V", "K", "_", "R", "E", "T", "U", "R", "N" >> >>,
      << << "B", "A", "C", "K", "S", "P", "A", "C", "E" >>, << "V", "K", "_", "B", "A", "C", "K" >> >>,
      << << "D", "E", "L", "E", "T", "E" >>, << "V", "K", "_", "D", "E", "L", "E", "T", "E" >> >>,
      << << "H", "O", "M", "E" >>, << "V", "K", "_", "H", "O", "M", "E" >> >>,
      << << "E", "N", "D" >>, << "V", "K", "_", "E", "N", "D" >> >>,
      << << "P", "A", "G", "E", "U", "P" >>, << "V", "K", "_", "P", "R", "I", "O", "R" >> >>,
      << << "P", "A", "G", "E", "D", "O", "W", "N" >>, << "V", "K", "_", "N", "E", "X", "T" >> >>,
      << << "L", "E", "F", "T" >>, << "V", "K", "_", "L", "E", "F", "T" >> >>,
      << << "R", "I", "G", "H", "T" >>, << "V", "K", "_", "R", "I", "G", "H", "T" >> >>,
      << << "U", "P" >>, << "V", "K", "_", "U", "P" >> >>,
      << << "D", "O", "W", "N" >>, << "V", "K", "_", "D", "O", "W", "N" >> >> }

\* alias_map.get(upper), the empty string standing for None
AliasOf(upper) ==
    IF \E e \in AliasMap : e[1] = upper
       THEN (CHOOSE e \in AliasMap : e[1] = upper)[2]
       ELSE << >>

\* _parse_virtual_key(win32con, token): the key code, or NoKey for None.
ParseVirtualKey(token) ==
    LET upper == Upper(token)
        fname == << "V", "K", "_" >> \o upper
    IN  IF Len(upper) = 1 /\ (Position(Uppers, upper[1]) > 0 \/ Position(Digits, upper[1]) > 0)
           THEN Ord(upper[1])
        ELSE IF StartsWith(upper, << "F" >>) /\ IsDigit(Tail(upper))
                /\ VkConstant(fname) # NoKey
           THEN VkConstant(fname)
        ELSE IF StartsWith(upper, << "V", "K", "_" >>) /\ VkConstant(upper) # NoKey
           THEN VkConstant(upper)
        ELSE IF AliasOf(upper) # << >>
           THEN VkConstant(AliasOf(upper))
        ELSE NoKey

\* combo.replace("-", "+")
ReplaceDash(s) == [ i \in 1 .. Len(s) |-> IF s[i] = "-" THEN "+" ELSE s[i] ]

\* s.split("+"): the pieces between the separators, empty pieces included.
RECURSIVE SplitPlus(_, _)
SplitPlus(s, piece) ==
    IF s = << >> THEN << piece >>
    ELSE IF Head(s) = "+" THEN << piece >> \o SplitPlus(Tail(s), << >>)
    ELSE SplitPlus(Tail(s), Append(piece, Head(s)))

\* [part.strip() for part in ... if part.strip()]
RECURSIVE StrippedParts(_)
StrippedParts(pieces) ==
    IF pieces = << >> THEN << >>
    ELSE IF Strip(Head(pieces)) = << >> THEN StrippedParts(Tail(pieces))
    ELSE << Strip(Head(pieces)) >> \o StrippedParts(Tail(pieces))

Parts(combo) == StrippedParts(SplitPlus(ReplaceDash(combo), << >>))

\* (mutant) the keys of the display string are joined with a blank.
BlankSeparator == " "

\* The separator of the display string: "+".join(keys).
DisplaySeparator == "+"

\* "+".join(keys)
RECURSIVE Join(_)
Join(keys) ==
    IF keys = << >> THEN << >>
    ELSE IF Len(keys) = 1 THEN keys[1]
    ELSE keys[1] \o << DisplaySeparator >> \o Join(Tail(keys))

\* modifiers |= flag, for a flag of one bit.
BitOr(modifiers, flag) ==
    IF (modifiers \div flag) % 2 = 1 THEN modifiers ELSE modifiers + flag

\* (mutant) the modifier names are matched as typed.
AsTyped(token) == token

\* normalized = token.lower()
Normalized(token) == Lower(token)

\* The modifier a normalized token names: its flag and its display name, or None.
ModifierOf(normalized) ==
    CASE normalized \in { << "c", "t", "r", "l" >>, << "c", "o", "n", "t", "r", "o", "l" >> } ->
            [ flag |-> MOD_CONTROL, display |-> << "C", "t", "r", "l" >> ]
      [] normalized \in { << "a", "l", "t" >> } ->
            [ flag |-> MOD_ALT, display |-> << "A", "l", "t" >> ]
      [] normalized \in { << "s", "h", "i", "f", "t" >> } ->
            [ flag |-> MOD_SHIFT, display |-> << "S", "h", "i", "f", "t" >> ]
      [] normalized \in { << "w", "i", "n" >>, << "w", "i", "n", "d", "o", "w", "s" >> } ->
            [ flag |-> MOD_WIN, display |-> << "W", "i", "n" >> ]
      [] OTHER -> [ flag |-> 0, display |-> << >> ]

\* What build_hotkey_binding returns or raises.  message tells the three
\* ValueErrors apart: "invalid" (no parts), "unknown" (unknown key token),
\* "missing" (no non-modifier key).
NoBinding(kind, message) ==
    [ kind |-> kind, message |-> message, name |-> None, modifiers |-> 0,
      virtual_key |-> 0, display |-> << >>, allow_repeat |-> FALSE ]

HotkeyBinding(name, modifiers, virtual_key, display, allow_repeat) ==
    [ kind |-> "binding", message |-> None, name |-> name, modifiers |-> modifiers,
      virtual_key |-> virtual_key, display |-> display, allow_repeat |-> allow_repeat ]

\* The loop over the parts from part i on: modifiers, keys and virtual_key so
\* far (virtual_key NoKey while no key token was seen).
RECURSIVE ScanParts(_, _, _, _, _, _, _)
ScanParts(parts, i, modifiers, keys, virtual_key, name, allow_repeat) ==
    IF i > Len(parts)
       THEN IF virtual_key = NoKey
               THEN NoBinding("ValueError", "missing")
               ELSE HotkeyBinding(name, modifiers, virtual_key, Join(keys), allow_repeat)
    ELSE LET token == parts[i]
             m == ModifierOf(Normalized(token))
         IN  IF m.flag # 0
                THEN ScanParts(parts, i + 1, BitOr(modifiers, m.flag),
                               Append(keys, m.display), virtual_key, name, allow_repeat)
             ELSE IF ParseVirtualKey(token) = NoKey
                THEN NoBinding("ValueError", "unknown")
             ELSE ScanParts(parts, i + 1, modifiers, Append(keys, Upper(token)),
                            ParseVirtualKey(token), name, allow_repeat)

\* build_hotkey_binding(name, combo, allow_repeat=..., win32con_module=win32con)
BuildHotkeyBinding(name, combo, allow_repeat) ==
    IF Parts(combo) = << >>
       THEN NoBinding("ValueError", "invalid")
       ELSE ScanParts(Parts(combo), 1, 0, << >>, NoKey, name, allow_repeat)

\* The spellings of modifiers that the chords of the model are made of, each with
\* the flag it names.
ModifierTokens ==
    { [ text |-> << "c", "t", "r", "l" >>, kind |-> "modifier", value |-> MOD_CONTROL ],
      [ text |-> << "C", "o", "n", "t", "r", "o", "l" >>, kind |-> "modifier", value |-> MOD_CONTROL ],
      [ text |-> << "A", "L", "T" >>, kind |-> "modifier", value |-> MOD_ALT ],
      [ text |-> << " ", "S", "h", "i", "f", "t" >>, kind |-> "modifier", value |-> MOD_SHIFT ],
      [ text |-> << "w", "i", "n" >>, kind |-> "modifier", value |-> MOD_WIN ],
      [ text |-> << "W", "I", "N", "D", "O", "W", "S" >>, kind |-> "modifier", value |-> MOD_WIN ] }

\* The key tokens of the model, each with the key code it names: letters, digits,
\* function keys, VK_ names and every key of the alias table.
KeyTokens ==
    { [ text |-> << "c" >>, kind |-> "key", value |-> 67 ],
      [ text |-> << "C" >>, kind |-> "key", value |-> 67 ],
      [ text |-> << "7" >>, kind |-> "key", value |-> 55 ],
      [ text |-> << "f", "8" >>, kind |-> "key", value |-> 119 ],
      [ text |-> << "F", "1", "2" >>, kind |-> "key", value |-> 123 ],
      [ text |-> << " ", "f", "1", " " >>, kind |-> "key", value |-> 112 ],
      [ text |-> << "v", "k", "_", "t", "a", "b" >>, kind |-> "key", value |-> 9 ],
      [ text |-> << "V", "K", "_", "H", "O", "M", "E" >>, kind |-> "key", value |-> 36 ],
      [ text |-> << "e", "s", "c" >>, kind |-> "key", value |-> 27 ],
      [ text |-> << "E", "s", "c", "a", "p", "e" >>, kind |-> "key", value |-> 27 ],
      [ text |-> << "t", "a", "b" >>, kind |-> "key", value |-> 9 ],
      [ text |-> << "s", "p", "a", "c", "e" >>, kind |-> "key", value |-> 32 ],
      [ text |-> << "e", "n", "t", "e", "r" >>, kind |-> "key", value |-> 13 ],
      [ text |-> << "R", "e", "t", "u", "r", "n" >>, kind |-> "key", value |-> 13 ],
      [ text |-> << "b", "a", "c", "k", "s", "p", "a", "c", "e" >>, kind |-> "key", value |-> 8 ],
      [ text |-> << "D", "e", "l", "e", "t", "e" >>, kind |-> "key", value |-> 46 ],
      [ text |-> << "H", "o", "m", "e" >>, kind |-> "key", value |-> 36 ],
      [ text |-> << "e", "n", "d" >>, kind |-> "key", value |-> 35 ],
      [ text |-> << "P", "a", "g", "e", "u", "p" >>, kind |-> "key", value |-> 33 ],
      [ text |-> << "P", "a", "g", "e", "d", "o", "w", "n" >>, kind |-> "key", value |-> 34 ],
      [ text |-> << "L", "e", "f", "t" >>, kind |-> "key", value |-> 37 ],
      [ text |-> << "r", "i", "g", "h", "t" >>, kind |-> "key", value |-> 39 ],
      [ text |-> << "U", "p" >>, kind |-> "key", value |-> 38 ],
      [ text |-> << "D", "o", "w", "n" >>, kind |-> "key", value |-> 40 ] }

\* Tokens that name neither a modifier nor a key, and blank parts.
UnknownTokens ==
    { [ text |-> << "f", "o", "o" >>, kind |-> "unknown", value |-> 0 ],
      [ text |-> << "F", "2", "5" >>, kind |-> "unknown", value |-> 0 ],
      [ text |-> << "c", "t", "l" >>, kind |-> "unknown", value |-> 0 ],
      [ text |-> << "v", "k", "_", "n", "o", "t", "h", "i", "n", "g" >>, kind |-> "unknown", value |-> 0 ],
      [ text |-> << "?" >>, kind |-> "unknown", value |-> 0 ] }
BlankTokens ==
    { [ text |-> << >>, kind |-> "blank", value |-> 0 ],
      [ text |-> << " " >>, kind |-> "blank", value |-> 0 ] }

\* The typed chord: the texts of the tokens with sep between them.
RECURSIVE Typed(_, _)
Typed(tokens, sep) ==
    IF tokens = << >> THEN << >>
    ELSE IF Len(tokens) = 1 THEN tokens[1].text
    ELSE tokens[1].text \o << sep >> \o Typed(Tail(tokens), sep)

ModifierRuns == UNION { [ 1 .. n -> ModifierTokens ] : n \in 0 .. MaxModifiers }

\* The chords of the model: up to MaxModifiers modifier tokens with at most one
\* other token before or after them.
Chords ==
    ModifierRuns
    \cup { << k >> \o ms : k \in KeyTokens \cup UnknownTokens \cup BlankTokens, ms \in ModifierRuns }
    \cup { ms \o << k >> : k \in KeyTokens \cup UnknownTokens \cup BlankTokens, ms \in ModifierRuns }

NoBindingCall ==
    [ tokens |-> << >>, combo |-> << >>, allow_repeat |-> FALSE,
      built |-> NoBinding("none", None), rebuilt |-> NoBinding("none", None) ]

BindingInputs ==
    { [ NoBindingCall EXCEPT !.tokens = ch, !.combo = Typed(ch, sep), !.allow_repeat = r ] :
         ch \in Chords, sep \in { "+", "-" }, r \in BOOLEAN }

\* build_hotkey_binding("copy", combo, allow_repeat=...)
BuildBinding ==
    /\ binding_call.built.kind = "none"
    /\ binding_call' = [ binding_call EXCEPT !.built =
                            BuildHotkeyBinding("copy", binding_call.combo,
                                               binding_call.allow_repeat) ]
    /\ UNCHANGED translate_call
    /\ TranslateFrame

\* build_hotkey_binding("copy", binding.display, allow_repeat=binding.allow_repeat)
RebuildFromDisplay ==
    /\ binding_call.built.kind = "binding"
    /\ binding_call.rebuilt.kind = "none"
    /\ binding_call' = [ binding_call EXCEPT !.rebuilt =
                            BuildHotkeyBinding(binding_call.built.name,
                                               binding_call.built.display,
                                               binding_call.built.allow_repeat) ]
    /\ UNCHANGED translate_call
    /\ TranslateFrame


\* No call of either function has been made.
PureInit ==
    /\ translate_call = NoTranslateCall
    /\ binding_call = NoBindingCall
    /\ state_dump_press_count = 1

\* ---------------------------------------------------------------------------
\* Initial states.

LifeInit ==
    /\ mainPc = "idle"
    /\ stop_event = FALSE
    /\ restart_event = FALSE
    /\ hotkey_service = 0
    /\ nService = 0
    /\ tray_running = FALSE
    /\ ctlPc = "idle"
    /\ stopArmed = FALSE
    /\ rebootArmed = FALSE
    /\ service_attempt = NoAttempt
    /\ hotkey_dispatcher = "none"
    /\ hotkey_event_queue = << >>

HandleInit ==
    /\ translator = 0
    /\ translator_lock = 0
    /\ nCtor = 0
    /\ resetMark = 0
    /\ returnedMark = 0
    /\ builtSinceReset = 0
    /\ rbSawCtor = 0

WorkInit ==
    /\ request_queue = << >>
    /\ worker_thread = 0
    /\ wpc = [ w \in Threads |-> "unborn" ]
    /\ wreq = [ w \in Threads |-> None ]
    /\ wtr = [ w \in Threads |-> 0 ]
    /\ nCrash = 0
    /\ last_original_text = None
    /\ nEnq = 0
    /\ enqueued = << >>
    /\ taken = << >>
    /\ calls = << >>
    /\ rendered = << >>
    /\ outcome = [ k \in 1 .. MaxReq |-> "none" ]
    /\ language_options = LANGUAGE_SEQUENCE
    /\ ui = [ pc |-> "idle", op |-> "none", old_src |-> None, old_dest |-> None,
              last_text |-> None, src |-> None, dest |-> None, put |-> << >> ]

DetInit ==
    /\ det = NewDetector
    /\ lastResult = "none"
    /\ chain = 0
    /\ prevReg = [ prev |-> -1, cur |-> -1 ]
    /\ last_trigger_time = 0
    /\ copyLog = << >>
    /\ channelLog = << >>
    /\ handledLog = << >>
    /\ svc = NewService
    /\ state_dump_detector = NewDetector
    /\ nDumps = 0
    /\ nHandlerErrors = 0
    /\ dispatchers = [ alive |-> 0, started |-> 0 ]
    /\ capture_threads = { }
    /\ copy_read = NoCopyRead

\* The worker pipeline of an application without hotkey bindings (as constructed
\* on any platform but win32), with the defaults of DEFAULT_HOTKEY_PREFERENCES.
Init ==
    /\ LifeInit /\ HandleInit /\ WorkInit /\ DetInit /\ PureInit
    /\ hotkey_bindings = FALSE
    /\ callsLeft = MaxReboots
    /\ source_language \in { None, "en" }
    /\ dest_language = "ja"
    /\ required_count = 2
    /\ interval = DOUBLE_COPY_INTERVAL

\* The lifecycle of an application with or without hotkey bindings.
LifecycleInit ==
    /\ LifeInit /\ HandleInit /\ WorkInit /\ DetInit /\ PureInit
    /\ hotkey_bindings \in BOOLEAN
    /\ callsLeft = MaxCalls
    /\ source_language = None
    /\ dest_language = "ja"
    /\ required_count = 2
    /\ interval = DOUBLE_COPY_INTERVAL

\* A detector of any required_count and interval.
DetectorInit ==
    /\ LifeInit /\ HandleInit /\ WorkInit /\ DetInit /\ PureInit
    /\ hotkey_bindings = FALSE
    /\ callsLeft = 0
    /\ source_language = None
    /\ dest_language = "ja"
    /\ required_count \in 1 .. MaxRequired
    /\ interval \in 1 .. MaxInterval

\* The application as the preferences or the tests configure its copy detector.
CopyInit ==
    /\ LifeInit /\ HandleInit /\ WorkInit /\ DetInit /\ PureInit
    /\ hotkey_bindings = FALSE
    /\ callsLeft = 0
    /\ source_language \in { None, "en" }
    /\ dest_language = "ja"
    /\ required_count \in { 1, 2 }
    /\ interval \in { DOUBLE_COPY_INTERVAL, TestDoubleCopyInterval }

\* The application with the default interval and a copy press count of 1 or 2.
PacedInit ==
    /\ LifeInit /\ HandleInit /\ WorkInit /\ DetInit /\ PureInit
    /\ hotkey_bindings = FALSE
    /\ callsLeft = 0
    /\ source_language = None
    /\ dest_language = "ja"
    /\ required_count \in { 1, 2 }
    /\ interval = DOUBLE_COPY_INTERVAL

\* The application started with a destination and with or without a source.
LanguageInit ==
    /\ LifeInit /\ HandleInit /\ WorkInit /\ DetInit /\ PureInit
    /\ hotkey_bindings = FALSE
    /\ callsLeft = 0
    /\ source_language \in { None, "en" }
    /\ dest_language = "ja"
    /\ required_count = 2
    /\ interval = DOUBLE_COPY_INTERVAL

\* The application with hotkey bindings and the default copy detector.
DispatchInit ==
    /\ LifeInit /\ HandleInit /\ WorkInit /\ DetInit /\ PureInit
    /\ hotkey_bindings = TRUE
    /\ callsLeft = MaxReboots
    /\ source_language = None
    /\ dest_language = "ja"
    /\ required_count = 2
    /\ interval = DOUBLE_COPY_INTERVAL

\* A capture service as constructed, beside an application that has not started.
ServiceInit ==
    /\ LifeInit /\ HandleInit /\ WorkInit /\ DetInit /\ PureInit
    /\ hotkey_bindings = TRUE
    /\ callsLeft = 0
    /\ source_language = None
    /\ dest_language = "ja"
    /\ required_count = 2
    /\ interval = DOUBLE_COPY_INTERVAL

\* ---------------------------------------------------------------------------
\* Specifications.

MainStep == MStart \/ MEnsure \/ MService \/ MWait \/ MFinally \/ MCheck
               \/ MClearRestart \/ MClearStop
\* The statements of a stop() or reboot() call that has been made.
CtlStep == StopSet \/ StopPut \/ RebootReset \/ RebootSetRestart \/ RebootSetStop
WorkerStep == \E w \in Threads : WGet(w) \/ WRecord(w) \/ WFetch(w) \/ WFactoryReturn(w)
                                    \/ WCall(w) \/ WReturn(w)

\* The worker pipeline: the main loop, reboot(), the producers of the request queue
\* and the worker threads.
Next ==
    \/ MStart \/ MEnsure \/ MService \/ MWait \/ MFinally \/ MCheck
    \/ MClearRestart \/ MClearStop
    \/ RebootCall \/ RebootReset \/ RebootSetRestart \/ RebootSetStop
    \/ PutCopy \/ PutRetranslation
    \/ \E w \in Threads : WGet(w)
    \/ \E w \in Threads : WRecord(w)
    \/ \E w \in Threads : WFetch(w)
    \/ \E w \in Threads : WFactoryReturn(w)
    \/ \E w \in Threads : WCall(w)
    \/ \E w \in Threads : WReturn(w)

Spec == Init /\ [][Next]_vars

\* The lifecycle: the main loop, stop() and reboot() from the tray menu's thread,
\* and the dispatcher thread taking the stop sentinel.
LifeNext ==
    \/ MStart \/ MEnsure \/ MService \/ MWait \/ MFinally \/ MCheck
    \/ MClearRestart \/ MClearStop
    \/ StopCall \/ StopSet \/ StopPut
    \/ RebootCall \/ RebootReset \/ RebootSetRestart \/ RebootSetStop
    \/ DispatchSentinel
    \/ CaptureThreadEnds

LifeSpec == LifecycleInit /\ [][LifeNext]_vars

\* Every thread that can take a step eventually takes one; nobody is obliged to
\* call stop() or reboot().
LifeLiveSpec ==
    /\ LifecycleInit /\ [][LifeNext]_vars
    /\ WF_vars(MainStep) /\ WF_vars(CtlStep) /\ WF_vars(DispatchSentinel)

DetectorNext == DetRegister \/ DetReset
DetectorSpec == DetectorInit /\ [][DetectorNext]_vars

CopyNext == HandleCopyEvent
CopySpec == CopyInit /\ [][CopyNext]_vars

\* The language-change handlers beside the copy path and the worker, while the
\* main loop waits for a stop request.
LanguageNext ==
    \/ MStart \/ MEnsure \/ MService
    \/ PutCopy
    \/ ToggleLanguage \/ SetDestLanguage \/ SetSourceLanguage \/ EnqueueRetranslation
    \/ \E w \in Threads : WGet(w)
    \/ \E w \in Threads : WRecord(w)
    \/ \E w \in Threads : WFetch(w)
    \/ \E w \in Threads : WFactoryReturn(w)
    \/ \E w \in Threads : WCall(w)
    \/ \E w \in Threads : WReturn(w)

LanguageSpec == LanguageInit /\ [][LanguageNext]_vars

\* The main loop and reboot() alone: nobody calls stop().
RebootNext ==
    \/ MStart \/ MEnsure \/ MService \/ MWait \/ MFinally \/ MCheck
    \/ MClearRestart \/ MClearStop
    \/ RebootCall \/ RebootReset \/ RebootSetRestart \/ RebootSetStop

\* Every thread that can take a step eventually takes one; nobody is obliged to
\* call reboot().
RebootLiveSpec ==
    /\ LifecycleInit /\ [][RebootNext]_vars
    /\ WF_vars(MainStep) /\ WF_vars(CtlStep)

\* The event channel across reboots: the main loop, reboot(), the capture service
\* and the dispatcher.
DispatchNext ==
    \/ MStart \/ MEnsure \/ MService \/ MWait \/ MFinally \/ MCheck
    \/ MClearRestart \/ MClearStop
    \/ RebootCall \/ RebootReset \/ RebootSetRestart \/ RebootSetStop
    \/ CapturePut \/ DispatchEvent

DispatchLiveSpec ==
    /\ DispatchInit /\ [][DispatchNext]_vars
    /\ WF_vars(MainStep) /\ WF_vars(CtlStep) /\ WF_vars(DispatchEvent)

\* The dispatcher routing events of the bound actions and of another name, beside
\* a main loop that has started its iteration.
RouteNames == HotkeyNames \cup { "other" }

RoutePut == Capture(RouteNames, MaxRouted)

RouteInit ==
    /\ LifeInit /\ HandleInit /\ WorkInit /\ DetInit
    /\ translate_call = NoTranslateCall
    /\ binding_call = NoBindingCall
    /\ state_dump_press_count \in { 1, 2 }
    /\ hotkey_bindings = TRUE
    /\ callsLeft = 0
    /\ source_language = None
    /\ dest_language = "ja"
    /\ required_count = 2
    /\ interval = DOUBLE_COPY_INTERVAL

RouteNext == MStart \/ MEnsure \/ MService \/ RoutePut \/ DispatchEvent

RouteSpec == RouteInit /\ [][RouteNext]_vars

\* The worker and the dispatcher across iterations of the main loop: stop() and
\* reboot() from the tray menu's thread, workers that translate or end on an
\* exception, the dispatcher taking the stop sentinel.
ThreadsInit ==
    /\ LifeInit /\ HandleInit /\ WorkInit /\ DetInit /\ PureInit
    /\ hotkey_bindings = FALSE
    /\ callsLeft = MaxControl
    /\ source_language = None
    /\ dest_language = "ja"
    /\ required_count = 2
    /\ interval = DOUBLE_COPY_INTERVAL

ThreadsNext ==
    \/ MStart \/ MEnsure \/ MService \/ MWait \/ MFinally \/ MCheck
    \/ MClearRestart \/ MClearStop
    \/ StopCall \/ StopSet \/ StopPut
    \/ RebootCall \/ RebootReset \/ RebootSetRestart \/ RebootSetStop
    \/ DispatchSentinel
    \/ PutCopy
    \/ \E w \in Threads : WGet(w)
    \/ \E w \in Threads : WRecord(w)
    \/ \E w \in Threads : WFetch(w)
    \/ \E w \in Threads : WFactoryReturn(w)
    \/ \E w \in Threads : WCall(w)
    \/ \E w \in Threads : WReturn(w)

ThreadsSpec == ThreadsInit /\ [][ThreadsNext]_vars

\* The language-change handlers beside copies of different texts and the worker.
RetranslateNext ==
    \/ MStart \/ MEnsure \/ MService
    \/ PutCopiedText
    \/ ToggleLanguage \/ SetDestLanguage \/ SetSourceLanguage \/ EnqueueRetranslation
    \/ \E w \in Threads : WGet(w)
    \/ \E w \in Threads : WRecord(w)
    \/ \E w \in Threads : WFetch(w)
    \/ \E w \in Threads : WFactoryReturn(w)
    \/ \E w \in Threads : WCall(w)
    \/ \E w \in Threads : WReturn(w)

RetranslateInit ==
    /\ LifeInit /\ HandleInit /\ WorkInit /\ DetInit /\ PureInit
    /\ hotkey_bindings = FALSE
    /\ callsLeft = 0
    /\ source_language = "en"
    /\ dest_language = "ja"
    /\ required_count = 2
    /\ interval = DOUBLE_COPY_INTERVAL

RetranslateSpec == RetranslateInit /\ [][RetranslateNext]_vars

\* The copy path reading the language pair beside the language-change handlers.
RaceNext ==
    \/ MStart \/ MEnsure \/ MService
    \/ CopyReadSource \/ CopyPutRequest
    \/ ToggleLanguage \/ SetDestLanguage \/ SetSourceLanguage \/ EnqueueRetranslation

RaceSpec == LanguageInit /\ [][RaceNext]_vars

\* Shutting down: the main loop, stop() from the tray menu's thread, the capture
\* service putting events and the dispatcher taking events and sentinels.
ShutdownInit ==
    /\ LifeInit /\ HandleInit /\ WorkInit /\ DetInit /\ PureInit
    /\ hotkey_bindings = TRUE
    /\ callsLeft = MaxStops
    /\ source_language = None
    /\ dest_language = "ja"
    /\ required_count = 2
    /\ interval = DOUBLE_COPY_INTERVAL

ShutdownNext ==
    \/ MStart \/ MEnsure \/ MService \/ MWait \/ MFinally \/ MCheck
    \/ StopCall \/ StopSet \/ StopPut
    \/ CapturePut \/ DispatchEvent \/ DispatchSentinel

\* Every thread that can take a step eventually takes one; nobody is obliged to
\* call stop().
ShutdownLiveSpec ==
    /\ ShutdownInit /\ [][ShutdownNext]_vars
    /\ WF_vars(MainStep) /\ WF_vars(CtlStep)
    /\ WF_vars(DispatchEvent) /\ WF_vars(DispatchSentinel)

\* A capture service, its caller and its capture thread.
ServiceNext ==
    \/ SvcStart \/ SvcStartReturns \/ SvcStartTimesOut \/ SvcStop \/ SvcStopReturns
    \/ DescribeBindings
    \/ ThreadLoad \/ ThreadLoop \/ ThreadInit \/ ThreadSetReady \/ ThreadPump
    \/ ThreadNotified \/ ThreadReregister \/ ThreadExcept \/ ThreadFinally

ServiceSpec == ServiceInit /\ [][ServiceNext]_vars

\* A capture service, its caller and its capture thread dispatching hotkey messages.
RegisterNext ==
    \/ SvcStart \/ SvcStartReturns \/ SvcStartTimesOut \/ SvcStop \/ SvcStopReturns
    \/ ThreadLoad \/ ThreadLoop \/ ThreadInit \/ ThreadSetReady \/ ThreadPump
    \/ ThreadNotified \/ ThreadReregister \/ ThreadExcept \/ ThreadFinally
    \/ ThreadHotkey

RegisterSpec == ServiceInit /\ [][RegisterNext]_vars

\* The copy path over a failed copy sequence and the presses that follow it.
PacedNext == HandlePacedCopyEvent
PacedSpec == PacedInit /\ [][PacedNext]_vars

\* One call of GoogleTranslateClient.translate, over its inputs and over what
\* the HTTP call does.
TranslateInit ==
    /\ LifeInit /\ HandleInit /\ WorkInit /\ DetInit
    /\ hotkey_bindings = FALSE
    /\ callsLeft = 0
    /\ source_language = None
    /\ dest_language = "ja"
    /\ required_count = 2
    /\ interval = DOUBLE_COPY_INTERVAL
    /\ translate_call \in TranslateInputs
    /\ binding_call = NoBindingCall
    /\ state_dump_press_count = 1

TranslateNext == TranslateCall
TranslateSpec == TranslateInit /\ [][TranslateNext]_vars

\* One call of build_hotkey_binding on a typed chord, and a second call on the
\* display string of the binding that the first returned.
BindingInit ==
    /\ LifeInit /\ HandleInit /\ WorkInit /\ DetInit
    /\ hotkey_bindings = FALSE
    /\ callsLeft = 0
    /\ source_language = None
    /\ dest_language = "ja"
    /\ required_count = 2
    /\ interval = DOUBLE_COPY_INTERVAL
    /\ translate_call = NoTranslateCall
    /\ binding_call \in BindingInputs
    /\ state_dump_press_count = 1

BindingNext == BuildBinding \/ RebuildFromDisplay
BindingSpec == BindingInit /\ [][BindingNext]_vars

\* ---------------------------------------------------------------------------
\* Claims.

\* C1: if stop() is called while start() is running and no reboot() is called
\* after it, start() eventually returns, under every interleaving of stop() with
\* the main loop's reading and clearing of the restart and stop flags.
C1_StopEndsStart == stopArmed ~> (mainPc = "done" \/ ~stopArmed)

\* C2: while the translator construction that was in progress when reboot() was
\* called is still in progress, that reboot() has not passed _reset_translator
\* (so it has not returned); and once the translator lock is free, the reset can
\* be entered.
C2_RebootWaitsForConstruction ==
    /\ (rbSawCtor # 0 /\ rbSawCtor = nCtor /\ ConstructionInProgress) => ctlPc = "rb_reset"
    /\ (ctlPc = "rb_reset" /\ translator_lock = 0) => ENABLED RebootReset

\* A reboot() called during a construction is waiting for it.
C2_Witness ==
    /\ rbSawCtor # 0 /\ rbSawCtor = nCtor /\ ConstructionInProgress
    /\ ctlPc = "rb_reset"

\* C3 as stated: every translate call that starts after reboot() has returned is
\* made on an instance constructed after that reboot's reset: no call is started
\* on an instance obtained before the reset.
C3_NoStaleCall == \A i \in 1 .. Len(calls) : ~calls[i].stale

\* C3 as amended: whenever the translator property returns an instance to a worker,
\* that instance was constructed after every reset made so far, hence after the
\* reset of every reboot() that has returned.
C3_FetchIsFresh ==
    [][ \A w \in Threads :
            (wpc[w] \in { "fetch", "factory" } /\ wpc'[w] = "call")
                => (wtr'[w] > resetMark' /\ wtr'[w] > returnedMark') ]_vars

\* A translate call was started, after a reboot() returned, on an instance
\* constructed after that reboot's reset.
C3_Witness ==
    /\ returnedMark >= 1
    /\ \E i \in 1 .. Len(calls) : calls[i].inst > returnedMark /\ ~calls[i].stale

\* C4: reboot() clears the cached translator and then sets restartRequested and
\* stopRequested; the translator is constructed only on first use; the instance
\* cached after a reset is distinct from every earlier one; and between two resets
\* at most one instance is constructed, which later requests reuse.
C4_CacheInv ==
    /\ nCtor > 0 => taken # << >>
    /\ translator # 0 => translator > resetMark
    /\ builtSinceReset <= 1
    /\ \A i, j \in 1 .. Len(calls) :
          (calls[i].inst > resetMark /\ calls[j].inst > resetMark)
              => calls[i].inst = calls[j].inst

C4_RebootSteps ==
    /\ (ctlPc = "rb_reset" /\ ctlPc' = "rb_restart")
           => (translator' = 0 /\ UNCHANGED << restart_event, stop_event >>)
    /\ (ctlPc = "rb_restart" /\ ctlPc' = "rb_stop") => restart_event'
    /\ (ctlPc = "rb_stop" /\ ctlPc' = "idle") => stop_event'
    /\ (ctlPc = "idle" /\ ctlPc' # "idle") => ctlPc' \in { "rb_reset", "st_set" }

C4_LazyResettableTranslator == [] C4_CacheInv /\ [][C4_RebootSteps]_vars

\* After a reboot the next request had a new instance constructed, distinct from
\* the one the request before the reboot used.
C4_Witness ==
    /\ Len(calls) = 2 /\ calls[1].inst = 1 /\ calls[2].inst = 2
    /\ resetMark = 1 /\ translator = 2 /\ ctlPc = "idle"

\* C5: requests are taken by the workers in the order they were enqueued, whatever
\* producers enqueued them; at most one worker is ever processing a request, so no
\* two translate calls are in progress; and when a translate call is in progress,
\* every request enqueued earlier has been rendered (or has ended its worker).
Busy(w) == wpc[w] \in { "record", "fetch", "factory", "call", "translating" }

C5_FifoSingleFlight ==
    /\ \A i \in 1 .. Len(taken) : taken[i] = i
    /\ Cardinality({ w \in Threads : Busy(w) }) <= 1
    /\ \A w \in Threads :
          wpc[w] \in { "call", "translating" }
              => \A k \in 1 .. (wreq[w].seq - 1) : outcome[k] # "none"

\* Two requests of different producers were processed, the second one's translate
\* call in progress after the first one's render.
C5_Witness ==
    /\ Len(taken) = 2
    /\ enqueued[1].reposition /\ ~enqueued[2].reposition
    /\ Len(rendered) = 1 /\ rendered[1].seq = 1
    /\ \E w \in Threads : wpc[w] = "translating" /\ wreq[w].seq = 2

\* C6: a request whose translation succeeded has exactly one render call, with
\* (request text, translated text, detected source), after exactly one translate
\* call with (text, src, dest); a request that met a TranslationError has exactly
\* one render call with (request text, "Error during translation: <message>",
\* requested source) and at most one translate call; the TranslationError ends no
\* worker and the request is not put back on the queue.
RendersOf(k) == { i \in 1 .. Len(rendered) : rendered[i].seq = k }
CallsOf(k) == { i \in 1 .. Len(calls) : calls[i].seq = k }

C6_OneRenderPerRequest ==
    /\ \A k \in 1 .. Len(enqueued) :
          /\ outcome[k] = "ok" =>
                /\ Cardinality(RendersOf(k)) = 1
                /\ \A i \in RendersOf(k) :
                      /\ rendered[i].original = enqueued[k].text
                      /\ rendered[i].translated =
                            TranslatedText(enqueued[k].text, enqueued[k].dest)
                      /\ rendered[i].detected = DetectedSource(enqueued[k].src)
                      /\ rendered[i].reposition = enqueued[k].reposition
                /\ Cardinality(CallsOf(k)) = 1
                /\ \A i \in CallsOf(k) :
                      /\ calls[i].text = enqueued[k].text
                      /\ calls[i].src = enqueued[k].src
                      /\ calls[i].dest = enqueued[k].dest
          /\ outcome[k] = "terr" =>
                /\ Cardinality(RendersOf(k)) = 1
                /\ \A i \in RendersOf(k) :
                      /\ rendered[i].original = enqueued[k].text
                      /\ rendered[i].translated = ErrorText(ErrorMessage)
                      /\ rendered[i].detected = enqueued[k].src
                /\ Cardinality(CallsOf(k)) <= 1
          /\ outcome[k] \in { "ok", "terr" } =>
                /\ \A w \in Threads : (wpc[w] = "dead" => wreq[w].seq # k)
                /\ \A i \in 1 .. Len(request_queue) : request_queue[i].seq # k
    /\ Len(rendered) = Cardinality({ k \in 1 .. Len(enqueued) : outcome[k] \in { "ok", "terr" } })

\* A request with requested source "en" met a TranslationError in translate() and
\* was rendered; its worker went on to the next request.
C6_Witness ==
    /\ Len(enqueued) = 2 /\ enqueued[1].src = "en"
    /\ outcome[1] = "terr" /\ CallsOf(1) # { } /\ RendersOf(1) # { }
    /\ outcome[2] = "ok"

\* C7: a failure while processing a request, whatever the translator factory or
\* translate() raises, never terminates the worker thread.
C7_WorkerSurvives == \A w \in Threads : wpc[w] # "dead"

\* The copy events handled so far are exactly two, gap ticks apart, each with the
\* clipboard holding "hello".
TwoCopiesOfHello(gap) ==
    /\ Len(copyLog) = 2
    /\ copyLog[2].t - copyLog[1].t = gap
    /\ \A i \in 1 .. 2 : copyLog[i].clip = [ raises |-> FALSE, text |-> Hello ]

\* C8: on a fresh app with required press count 2, clipboard text "hello" and
\* destination "ja", two copy events 0.1 s apart enqueue exactly one request with
\* text "hello", dest "ja" and reposition = true, whatever the first timestamp is.
C8_DoubleCopyEnqueuesOne ==
    (required_count = 2 /\ dest_language = "ja" /\ TwoCopiesOfHello(TestShortAdvance))
        => /\ Len(request_queue) = 1
           /\ request_queue[1].text = Hello
           /\ request_queue[1].dest = "ja"
           /\ request_queue[1].reposition = TRUE

\* C9: on a fresh detector with required_count = n >= 1, in a sequence of register
\* calls with non-decreasing timestamps, each at most interval after the previous
\* one, the calls before the nth return pending (the count being the number of
\* calls made), and the nth call returns completed and leaves the count at 0.
C9_NthPressCompletes ==
    /\ (chain >= 1 /\ chain < required_count)
           => (lastResult = "pending" /\ det.count = chain)
    /\ chain = required_count => (lastResult = "completed" /\ det.count = 0)

\* Three presses, the last one exactly interval after the second, complete a
\* sequence of three.
C9_Witness ==
    /\ required_count = 3 /\ chain = 3 /\ lastResult = "completed"
    /\ prevReg.cur - prevReg.prev = interval

\* The latest copy event came strictly more than interval after the one before it.
LatestAfterGap ==
    /\ Len(copyLog) >= 2
    /\ copyLog[Len(copyLog)].t - copyLog[Len(copyLog) - 1].t > interval

\* C10 as stated: a register call strictly more than interval after the previous
\* one leaves the consecutive count at 1; and two copy events 1.0 s apart with a
\* 0.5 s interval enqueue no request.
C10_GapLeavesCountOne ==
    /\ LatestAfterGap => det.count = 1
    /\ (required_count = 2 /\ interval = TestDoubleCopyInterval
            /\ Len(copyLog) = 2 /\ copyLog[2].t - copyLog[1].t = TestLongAdvance)
           => request_queue = << >>

\* C10 as amended: a register call strictly more than interval after the previous
\* one counts as press 1 of a new sequence: with required_count >= 2 it returns
\* pending and leaves the count at 1, with required_count = 1 it returns completed
\* and leaves the count at 0; and with required press count 2, two copy events
\* 1.0 s apart with a 0.5 s interval enqueue no request.
C10_GapRestartsSequence ==
    /\ (LatestAfterGap /\ required_count >= 2)
           => (lastResult = "pending" /\ det.count = 1
                 /\ det.last = copyLog[Len(copyLog)].t)
    /\ (LatestAfterGap /\ required_count = 1)
           => (lastResult = "completed" /\ det.count = 0)
    /\ (required_count = 2 /\ interval = TestDoubleCopyInterval
            /\ Len(copyLog) = 2 /\ copyLog[2].t - copyLog[1].t = TestLongAdvance)
           => request_queue = << >>

\* Two copy events 1.0 s apart on an app with a 0.5 s interval: the second is press
\* 1 of a new sequence and nothing is enqueued.
C10_Witness ==
    /\ required_count = 2 /\ interval = TestDoubleCopyInterval
    /\ Len(copyLog) = 2 /\ copyLog[2].t - copyLog[1].t = TestLongAdvance
    /\ det.count = 1 /\ request_queue = << >>

\* C11: after reset() on a detector in any state, the next register call is the
\* first press of a fresh sequence whatever its timestamp: the count before the
\* completion check is 1, so with required_count >= 2 it returns pending and leaves
\* the count at 1, even within interval of the press before the reset.
C11_ResetStartsFresh ==
    [][ (chain = 0 /\ chain' = 1)
           => /\ CountedPresses(det, det'.last) = 1
              /\ required_count >= 2 => (lastResult' = "pending" /\ det'.count = 1)
      ]_vars

\* A press, later a reset, and then a press within interval of the press before
\* the reset: it is pending with count 1.
C11_Witness ==
    /\ required_count = 3 /\ chain = 1 /\ lastResult = "pending" /\ det.count = 1
    /\ prevReg.prev >= 1 /\ prevReg.cur >= prevReg.prev
    /\ prevReg.cur - prevReg.prev <= interval

\* The count of the detector is between 0 and required_count.
C12_CountInRange == det.count \in 0 .. required_count

\* A register call is one of: the press that completes the sequence and zeroes the
\* count; a press within the window that increments the count; a press after a gap
\* that sets the count to one.
C12_RegisterKinds ==
    lastResult' # "none" =>
        \/ /\ lastResult' = "completed"
           /\ det.count + 1 >= required_count
           /\ det'.count = 0
        \/ /\ lastResult' = "pending"
           /\ det'.last - det.last <= interval
           /\ det'.count = det.count + 1
        \/ /\ lastResult' = "pending"
           /\ det'.last - det.last > interval
           /\ det'.count = 1

\* C12: after any sequence of register and reset calls with any timestamps the
\* count is in [0, required_count], and every register call either increments and
\* resets to zero (completion), increments and continues, or resets to one (gap).
C12_CountBoundedAndKinds == [] C12_CountInRange /\ [][C12_RegisterKinds]_vars

\* A press with a timestamp before that of the previous press has been counted as
\* the second press of three.
C12_Witness ==
    /\ required_count = 3 /\ det.count = 2 /\ lastResult = "pending"
    /\ prevReg.cur < prevReg.prev

\* Copy event i completed a sequence and its clipboard read failed.
FailedAt(i) == i \in 1 .. Len(copyLog) /\ copyLog[i].did = "failed"

\* The n copy events after event i have been handled, each of them but the first
\* within interval of the one before it, and at the last of them the clipboard
\* returns a text that is not blank.
FullSequenceAfter(i, n) ==
    /\ i + n <= Len(copyLog)
    /\ \A k \in (i + 2) .. (i + n) : copyLog[k].t - copyLog[k - 1].t <= interval
    /\ ~copyLog[i + n].clip.raises
    /\ Strip(copyLog[i + n].clip.text) # << >>

\* Copy event j put a request with the stripped clipboard text.
EnqueuedAt(j) ==
    /\ copyLog[j].did = "enqueued"
    /\ copyLog[j].put = Strip(copyLog[j].clip.text)
    /\ \E q \in 1 .. Len(enqueued) : enqueued[q].text = copyLog[j].put

\* C13 as stated, for the default press count of 2: when the clipboard read fails
\* after a completed copy sequence no request is enqueued and the detector is
\* reset, a single following press does not complete a sequence, and the full copy
\* sequence that follows with a working clipboard enqueues a request with the
\* clipboard text.
C13_FailureThenAnySequenceEnqueues ==
    required_count = 2 =>
        \A i \in 1 .. Len(copyLog) :
            FailedAt(i) =>
                /\ copyLog[i].put = << >>
                /\ i = Len(copyLog) => det = NewDetector
                /\ i + 1 <= Len(copyLog) => copyLog[i + 1].did = "pending"
                /\ FullSequenceAfter(i, 2) => EnqueuedAt(i + 2)

\* C13 as amended: when the clipboard read fails after a completed copy sequence
\* no request is enqueued and the detector is reset; with a press count of at
\* least 2 a single following press does not complete a sequence; and the full
\* copy sequence that follows with a working clipboard enqueues a request with the
\* stripped clipboard text provided it completes at least the minimum trigger
\* interval after the failed one.
C13_FailureThenSpacedSequenceEnqueues ==
    \A i \in 1 .. Len(copyLog) :
        FailedAt(i) =>
            /\ copyLog[i].put = << >>
            /\ i = Len(copyLog) => det = NewDetector
            /\ (required_count >= 2 /\ i + 1 <= Len(copyLog))
                   => copyLog[i + 1].did = "pending"
            /\ (FullSequenceAfter(i, required_count)
                  /\ copyLog[i + required_count].t - copyLog[i].t >= MIN_TRIGGER_INTERVAL)
                   => EnqueuedAt(i + required_count)

\* Two presses with a failing clipboard, then two presses 0.1 s apart with the
\* clipboard working: one request with the text "hello".
C13_Witness ==
    /\ required_count = 2 /\ Len(copyLog) = 4
    /\ FailedAt(2) /\ copyLog[3].did = "pending" /\ EnqueuedAt(4)
    /\ copyLog[3].t - copyLog[2].t = TestShortAdvance
    /\ copyLog[4].t - copyLog[3].t = TestShortAdvance
    /\ Len(request_queue) = 1 /\ request_queue[1].text = Hello

\* The latest language-change handler has returned, and it was op.
Returned(op) == ui.pc = "idle" /\ ui.op = op

\* The latest handler put exactly one request: last_text with the pair src, dest
\* and reposition = false.
PutOneRetranslation(src, dest) ==
    /\ Len(ui.put) = 1
    /\ ui.put[1].text = ui.last_text
    /\ ui.put[1].src = src
    /\ ui.put[1].dest = dest
    /\ ui.put[1].reposition = FALSE
    /\ ui.put[1].seq \in 1 .. Len(enqueued)
    /\ enqueued[ui.put[1].seq] = ui.put[1]

\* C14: with a source and a destination set and a request processed, toggling the
\* language swaps the two and enqueues exactly one request with src = old dest,
\* dest = old src, reposition = false and the text of the last processed request.
C14_ToggleSwapsAndRetranslates ==
    (Returned("toggle") /\ IsSet(ui.old_src) /\ IsSet(ui.old_dest) /\ ui.last_text # None)
        => /\ source_language = ui.old_dest
           /\ dest_language = ui.old_src
           /\ PutOneRetranslation(ui.old_dest, ui.old_src)

\* A toggle from en -> ja after "hello" was processed put the request ja -> en.
C14_Witness ==
    /\ Returned("toggle") /\ ui.old_src = "en" /\ ui.old_dest = "ja"
    /\ Len(ui.put) = 1 /\ ui.put[1].text = Hello
    /\ ui.put[1].src = "ja" /\ ui.put[1].dest = "en"

\* What the latest handler that returned has put, given the pair it left.
C15_HandlerPuts ==
    (ui.pc = "idle" /\ ui.op # "none")
        => /\ source_language = ui.src
           /\ dest_language = ui.dest
           /\ ui.op = "set_dest" => (ui.src = ui.old_src /\ ui.dest \in DestChoices)
           /\ ui.op = "set_source" => (ui.dest = ui.old_dest /\ ui.src \in SourceChoices)
           /\ IF ui.last_text # None THEN PutOneRetranslation(source_language, dest_language)
                                     ELSE ui.put = << >>

\* A handler that returns adds what it has put to the queue, and nothing else.
C15_HandlerStep ==
    (ui.pc = "put" /\ ui'.pc = "idle")
        => /\ enqueued' = enqueued \o ui'.put
           /\ request_queue' = request_queue \o ui'.put

C16_StartKeepsRunning == rebootArmed => mainPc # "done"

\* The main loop is blocked in wait() with the restart flag set and no stop request.
BlockedWithRestartSet == mainPc = "wait" /\ restart_event /\ ~stop_event

\* C17: whenever restartRequested is set, stopRequested is set as well before the
\* main loop next blocks: under every interleaving of reboot() calls with the main
\* loop, the loop never stays blocked for a stop request with restartRequested set.
C17_RestartBringsStop == BlockedWithRestartSet ~> stop_event

\* The events handled are the first events put on the channel, in channel order,
\* each of them once.
C18_HandledIsPrefix ==
    /\ Len(handledLog) <= Len(channelLog)
    /\ \A i \in 1 .. Len(handledLog) : handledLog[i] = channelLog[i]

\* C18: every HotkeyEvent put on the event channel while the app keeps running,
\* across reboots, is eventually taken and handled by the dispatcher exactly once,
\* in channel order.
C18_EveryEventHandledOnce ==
    /\ [] C18_HandledIsPrefix
    /\ []<>(handledLog = channelLog)

\* Two events have been handled in order, the second one put by the capture
\* service that a reboot created.
C18_Witness ==
    /\ Len(channelLog) = 2 /\ handledLog = channelLog
    /\ rebootArmed /\ nService >= 2
    /\ channelLog[1].name = "copy" /\ channelLog[2].name = "copy"

\* C19: a start() of the capture service that started the capture thread returns
\* normally only when that thread has finished initialising and is listening; in
\* every other case, a capture thread that ended during start-up included, it
\* fails with an error.
C19_StartReturnsOnlyWhenListening ==
    svc.result = "returned" => svc.threadAtReturn = "pump"

\* C20: describe_bindings() returns the display strings of exactly the bindings
\* whose registration currently succeeded; a binding whose registration failed, or
\* any binding after the registrations were torn down, is not in the result.
C20_DescribesRegisteredOnly ==
    svc.describeCalled => svc.described = { DisplayOf(b) : b \in svc.registeredThen }

\* ---------------------------------------------------------------------------
\* C21: when an exception escapes window initialisation or the message pump while
\* the service is running, the capture thread tears down, backs off and
\* initialises again, and this repeats until stop() is called: with no stop()
\* (and no re-registration request, which has its own way out), a capture thread
\* that has crashed is never on its way out.
C21_CrashedThreadRetriesUntilStop ==
    (svc.crashed /\ ~svc.stopCalled /\ svc.rereg = "none")
        => svc.thread \notin { "finally", "ended" }

\* ---------------------------------------------------------------------------
\* C22: when a re-registration request is handled while the service is running
\* and the initialisation succeeds, the service is listening again afterwards and
\* the message loop keeps running: with no stop() and no crash, the capture
\* thread stays in the message pump on its new window.
C22_ReregisteredKeepsListening ==
    (svc.rereg = "done" /\ ~svc.stopCalled /\ ~svc.crashed)
        => svc.thread = "pump" /\ svc.hwnd

\* ---------------------------------------------------------------------------
\* C23: after the capture service's stop() has returned (and before a later
\* start()), the service holds no window handle and no registered hotkey ids,
\* whether or not the capture thread ended within the join timeout.
C23_StopLeavesNoNativeState ==
    svc.stopReturned => ~svc.hwnd /\ svc.id_map = { }

\* ---------------------------------------------------------------------------
\* C24: if creating or starting the capture service fails in an iteration of the
\* main loop, start() goes on: a service whose start() raised is stopped, no
\* service is kept, the tray is started, and the main loop blocks in
\* _stop_event.wait() without hotkeys until a stop is requested.
FailedAttempt == service_attempt.res \in { "create_fails", "start_fails" }

C24_AfterAttempt ==
    (mainPc = "service" /\ mainPc' # "service" /\ FailedAttempt')
        => /\ mainPc' = "wait"
           /\ hotkey_service' = 0
           /\ tray_running'
           /\ service_attempt'.stopped = (service_attempt'.res = "start_fails")

C24_WaitsWithoutHotkeys ==
    (mainPc = "wait" /\ FailedAttempt) => hotkey_service = 0 /\ tray_running

C24_LeavesWaitOnStop ==
    (mainPc = "wait" /\ mainPc' # "wait") => stop_event /\ mainPc' = "finally"

C24_FailedServiceDoesNotFailStart ==
    /\ [] C24_WaitsWithoutHotkeys
    /\ [][C24_AfterAttempt /\ C24_LeavesWaitOnStop]_vars

\* start() of a created service raised, and the main loop is blocked with the
\* tray running and no service.
C24_Witness ==
    /\ mainPc = "wait" /\ ~stop_event
    /\ service_attempt = [ res |-> "start_fails", stopped |-> TRUE ]
    /\ hotkey_service = 0 /\ tray_running /\ nService >= 1

\* ---------------------------------------------------------------------------
\* C25: for every outcome of the HTTP call (success, URL error, timeout,
\* malformed payload), translate either returns a result or raises
\* TranslationError, never another exception type; a network timeout in
\* particular is reported as a TranslationError.
C25_OnlyTranslationErrorEscapes ==
    translate_call.outcome.kind = "raised"
        => translate_call.outcome.exc = "TranslationError"

\* ---------------------------------------------------------------------------
\* C26: for every binding b that build_hotkey_binding produces from a chord,
\* parsing b's display string again with the same name and allow-repeat flag
\* yields a binding equal to b.
C26_DisplayRoundTrips ==
    binding_call.rebuilt.kind # "none" => binding_call.rebuilt = binding_call.built

\* A chord typed otherwise than its display string (ctrl, WINDOWS and a key of
\* the alias table) was built and built again from the display string.
C26_Witness ==
    /\ binding_call.rebuilt.kind = "binding"
    /\ binding_call.built.display # binding_call.combo
    /\ binding_call.built.modifiers = MOD_CONTROL + MOD_WIN
    /\ binding_call.built.virtual_key = VkConstant(<< "V", "K", "_", "E", "S", "C", "A", "P", "E" >>)

\* ---------------------------------------------------------------------------
\* C27: build_hotkey_binding fails with a parse error when the chord has no
\* non-modifier token or when a non-modifier token is not recognised; in every
\* other case it returns a binding whose modifier mask is the union of the named
\* modifiers (whatever their case) and whose key code is that of the key token.
TypedKinds(kind) ==
    { i \in 1 .. Len(binding_call.tokens) : binding_call.tokens[i].kind = kind }

RECURSIVE MaskOf(_)
MaskOf(flags) ==
    IF flags = { } THEN 0
    ELSE LET f == CHOOSE x \in flags : TRUE IN f + MaskOf(flags \ { f })

C27_ParsesOrFails ==
    binding_call.built.kind # "none" =>
        IF TypedKinds("unknown") # { } \/ TypedKinds("key") = { }
           THEN binding_call.built.kind = "ValueError"
           ELSE /\ binding_call.built.kind = "binding"
                /\ binding_call.built.modifiers =
                      MaskOf({ binding_call.tokens[i].value : i \in TypedKinds("modifier") })
                /\ \A i \in TypedKinds("key") :
                      binding_call.built.virtual_key = binding_call.tokens[i].value

\* A chord that names the same modifier twice, in two spellings, and a key.
C27_Witness ==
    /\ binding_call.built.kind = "binding"
    /\ Len(binding_call.tokens) = 3
    /\ Cardinality({ binding_call.tokens[i].text : i \in TypedKinds("modifier") }) = 2
    /\ binding_call.built.modifiers = MOD_CONTROL

\* ---------------------------------------------------------------------------
\* C28: a completed copy sequence whose timestamp is less than the minimum
\* trigger interval after the last accepted trigger is rejected: the clipboard is
\* not read, no request is enqueued and the last trigger time is unchanged; hence
\* any two accepted triggers are at least the minimum trigger interval apart.
Accepted(log, i) == log[i].did \in { "failed", "blank", "enqueued" }

LastAccepted(log) ==
    IF \E i \in 1 .. Len(log) : Accepted(log, i)
       THEN CHOOSE i \in 1 .. Len(log) :
               Accepted(log, i) /\ \A j \in (i + 1) .. Len(log) : ~Accepted(log, j)
       ELSE 0

\* The step is one call of _handle_copy_event.
CopyStep == Len(copyLog') = Len(copyLog) + 1

LatestCopy == copyLog[Len(copyLog)]

C28_RejectsEarlyTrigger ==
    (/\ CopyStep
     /\ lastResult' = "completed"
     /\ LastAccepted(copyLog) > 0
     /\ LatestCopy'.t - copyLog[LastAccepted(copyLog)].t < MIN_TRIGGER_INTERVAL)
        => /\ LatestCopy'.did = "toosoon"
           /\ request_queue' = request_queue
           /\ last_trigger_time' = last_trigger_time
           /\ det' = [ last |-> LatestCopy'.t, count |-> 0 ]

C28_AcceptedApart ==
    \A i, j \in 1 .. Len(copyLog) :
        (i < j /\ Accepted(copyLog, i) /\ Accepted(copyLog, j))
            => copyLog[j].t - copyLog[i].t >= MIN_TRIGGER_INTERVAL

C28_MinTriggerGuard == [] C28_AcceptedApart /\ [][C28_RejectsEarlyTrigger]_vars

\* A completed sequence was rejected after an accepted trigger, whose clipboard
\* would have raised had it been read.
C28_Witness ==
    /\ Len(copyLog) >= 2
    /\ LatestCopy.did = "toosoon" /\ LatestCopy.clip.raises
    /\ LastAccepted(copyLog) > 0
    /\ det.last = LatestCopy.t

\* ---------------------------------------------------------------------------
\* C29: a copy event that does not complete a debounce sequence never reads the
\* clipboard and never enqueues a request; the number of clipboard-triggered
\* requests never exceeds the number of completed copy sequences; a single copy
\* press on a fresh app with required count 2 leaves the request queue empty.
C29_PendingPressDoesNothing ==
    (CopyStep /\ lastResult' = "pending")
        => /\ LatestCopy'.did = "pending"
           /\ request_queue' = request_queue
           /\ nEnq' = nEnq
           /\ last_trigger_time' = last_trigger_time

C29_RequestsWithinCompletions ==
    nEnq <= Cardinality({ i \in 1 .. Len(copyLog) : copyLog[i].did # "pending" })

C29_SinglePressLeavesQueueEmpty ==
    (Len(copyLog) = 1 /\ required_count = 2) => request_queue = << >>

C29_IncompleteSequenceEnqueuesNothing ==
    /\ [] (C29_RequestsWithinCompletions /\ C29_SinglePressLeavesQueueEmpty)
    /\ [][C29_PendingPressDoesNothing]_vars

\* One press with required count 2, past the trigger guard, the clipboard holding
\* a text.
C29_Witness ==
    /\ Len(copyLog) = 1 /\ required_count = 2
    /\ LatestCopy.t >= MIN_TRIGGER_INTERVAL
    /\ ~LatestCopy.clip.raises /\ LatestCopy.clip.text = Hello
    /\ lastResult = "pending"

\* ---------------------------------------------------------------------------
\* C30: when the clipboard text is empty after trimming whitespace, the copy path
\* enqueues no request, reports no error and does not reset the copy detector; a
\* non-empty text is enqueued trimmed.
AllSpace(text) == \A i \in 1 .. Len(text) : IsSpace(text[i])

\* trimmed is text without the whitespace at its two ends.
IsTrimOf(trimmed, text) ==
    /\ trimmed # << >>
    /\ ~IsSpace(trimmed[1]) /\ ~IsSpace(trimmed[Len(trimmed)])
    /\ \E a \in 1 .. Len(text) :
          /\ SubSeq(text, a, a + Len(trimmed) - 1) = trimmed
          /\ AllSpace(SubSeq(text, 1, a - 1))
          /\ AllSpace(SubSeq(text, a + Len(trimmed), Len(text)))

C30_BlankDroppedTextTrimmed ==
    (/\ CopyStep
     /\ lastResult' = "completed"
     /\ last_trigger_time' = LatestCopy'.t
     /\ LatestCopy'.t - last_trigger_time >= MIN_TRIGGER_INTERVAL
     /\ ~LatestCopy'.clip.raises)
        => IF AllSpace(LatestCopy'.clip.text)
              THEN /\ request_queue' = request_queue
                   /\ LatestCopy'.did = "blank"
                   /\ det' = [ last |-> LatestCopy'.t, count |-> 0 ]
              ELSE /\ Len(request_queue') = Len(request_queue) + 1
                   /\ SubSeq(request_queue', 1, Len(request_queue)) = request_queue
                   /\ IsTrimOf(request_queue'[Len(request_queue')].text, LatestCopy'.clip.text)
                   /\ LatestCopy'.did = "enqueued"

C30_BlankTextIsDropped == [][C30_BlankDroppedTextTrimmed]_vars

\* A blank clipboard was dropped at a time other than 0 (where a reset detector
\* would look the same), then a padded text was enqueued.
C30_Witness ==
    /\ Len(copyLog) = 2
    /\ copyLog[1].did = "blank" /\ copyLog[1].t > 0
    /\ copyLog[2].did = "enqueued" /\ copyLog[2].clip.text = Padded
    /\ Len(request_queue) = 1


\* ---------------------------------------------------------------------------
\* C31: the copy action and the state-dump action each use their own detector:
\* handling a state-dump event leaves the copy detector's count and last
\* timestamp unchanged and enqueues no request, and handling a copy event leaves
\* the state-dump detector unchanged, whatever the order of the two streams.

\* The dispatcher handles the event at the head of the channel in this step.
Handles(name) ==
    /\ handledLog' # handledLog
    /\ Head(hotkey_event_queue).name = name

C31_OwnDetector ==
    /\ Handles("state_dump") =>
          /\ det' = det
          /\ request_queue' = request_queue
          /\ nEnq' = nEnq
          /\ last_trigger_time' = last_trigger_time
    /\ Handles("copy") =>
          /\ state_dump_detector' = state_dump_detector
          /\ nDumps' = nDumps

C31_DetectorsIndependent == [][C31_OwnDetector]_vars

\* A state-dump press between the two presses of a double copy: the copy sequence
\* completed and enqueued, the state-dump detector holds that one press.
C31_Witness ==
    /\ state_dump_press_count = 2
    /\ Len(handledLog) = 3
    /\ handledLog[1].name = "copy"
    /\ handledLog[2].name = "state_dump"
    /\ handledLog[3].name = "copy"
    /\ nEnq = 1
    /\ state_dump_detector = [ last |-> handledLog[2].timestamp, count |-> 1 ]

\* ---------------------------------------------------------------------------
\* C32: an event with an unknown action name changes no detector state and
\* enqueues nothing, and the dispatcher goes on to the next event; an exception
\* raised while handling an event does not terminate the dispatcher either.

C32_DroppedOrLogged ==
    /\ (/\ handledLog' # handledLog
        /\ Head(hotkey_event_queue).name \notin HotkeyNames) =>
          /\ det' = det
          /\ state_dump_detector' = state_dump_detector
          /\ request_queue' = request_queue
          /\ nEnq' = nEnq
          /\ nDumps' = nDumps
          /\ last_trigger_time' = last_trigger_time
          /\ hotkey_event_queue' = Tail(hotkey_event_queue)
          /\ hotkey_dispatcher' = "alive"
    /\ nHandlerErrors' # nHandlerErrors =>
          /\ hotkey_event_queue' = Tail(hotkey_event_queue)
          /\ hotkey_dispatcher' = "alive"

C32_UnknownDroppedErrorsLogged == [][C32_DroppedOrLogged]_vars

\* The only state-dump raised; an event of another name and a copy event were
\* handled after it.
C32_Witness ==
    /\ Len(handledLog) = 3
    /\ handledLog[1].name = "state_dump"
    /\ handledLog[2].name = "other"
    /\ handledLog[3].name = "copy"
    /\ nHandlerErrors = 1
    /\ nDumps = 0
    /\ hotkey_dispatcher = "alive"

\* ---------------------------------------------------------------------------
\* C33: in one registration pass a binding whose native registration fails is
\* skipped while every other binding is still registered; the id map then holds
\* exactly the bindings that succeeded, it is empty after a teardown, and a
\* hotkey message puts one HotkeyEvent carrying the binding's name only when its
\* id is in the map.

\* _initialize_window() returned in this step, at the start of a loop iteration
\* or in a re-registration.
PassStep ==
    \/ svc.thread = "init" /\ svc'.thread = "set_ready"
    \/ svc.rereg = "posted" /\ svc'.rereg = "done"

\* _cleanup_window() ran last in this step.
TeardownStep ==
    \/ svc.thread \in { "except", "finally" } /\ svc'.thread # svc.thread
    \/ svc.rereg = "posted" /\ svc'.rereg \in { "failed", "skipped" }

\* A WM_HOTKEY was dispatched in this step.
HotkeyStep == svc'.hotkey # svc.hotkey \/ channelLog' # channelLog

C33_PassTeardownMessage ==
    /\ PassStep => svc'.id_map = Bindings \ svc'.failedThen
    /\ TeardownStep => svc'.id_map = { }
    /\ HotkeyStep =>
          LET named == { b \in svc.id_map : BindingId(b) = svc'.hotkey.id }
          IN  IF named = { }
                 THEN /\ channelLog' = channelLog
                      /\ hotkey_event_queue' = hotkey_event_queue
                 ELSE /\ Len(channelLog') = Len(channelLog) + 1
                      /\ SubSeq(channelLog', 1, Len(channelLog)) = channelLog
                      /\ channelLog'[Len(channelLog')].name \in named
                      /\ hotkey_event_queue' =
                             Append(hotkey_event_queue, channelLog'[Len(channelLog')])

C33_PartialRegistration == [][C33_PassTeardownMessage]_vars

\* After a re-registration in which the copy binding failed: the hotkey of
\* state_dump put its event, the hotkey of copy put nothing.
C33_Witness ==
    /\ svc.thread = "pump"
    /\ svc.rereg = "done"
    /\ svc.failedThen = { "copy" }
    /\ svc.id_map = { "state_dump" }
    /\ Len(channelLog) = 1
    /\ channelLog[1].name = "state_dump"
    /\ hotkey_event_queue = channelLog
    /\ svc.hotkey = [ id |-> BindingId("copy"), emitted |-> FALSE ]

\* ---------------------------------------------------------------------------
\* C34: ensuring the background threads never starts a second worker or a second
\* dispatcher while one is alive: across loop iterations and reboots at most one
\* worker thread consumes the request queue and at most one dispatcher thread the
\* event channel, and a dead one is replaced at the start of the next iteration.

AliveWorkers == { w \in Threads : WorkerAlive(w) }

C34_AtMostOne ==
    /\ Cardinality(AliveWorkers) <= 1
    /\ AliveWorkers \subseteq { worker_thread }
    /\ dispatchers.alive <= 1
    /\ hotkey_dispatcher = "alive" <=> dispatchers.alive = 1

\* _ensure_background_threads ran in this step.
EnsureStep == mainPc = "ensure" /\ mainPc' = "service"

C34_EnsureReplacesTheDead ==
    EnsureStep =>
        /\ WorkerAlive(worker_thread)'
        /\ hotkey_dispatcher' = "alive"
        /\ WorkerAlive(worker_thread) => worker_thread' = worker_thread /\ wpc' = wpc
        /\ hotkey_dispatcher = "alive" => dispatchers' = dispatchers
        /\ ~WorkerAlive(worker_thread) => worker_thread' # worker_thread
        /\ hotkey_dispatcher # "alive" => dispatchers'.started = dispatchers.started + 1

C34_OneWorkerOneDispatcher == [] C34_AtMostOne /\ [][C34_EnsureReplacesTheDead]_vars

\* In a later iteration: the first worker ended on an exception and the first
\* dispatcher on a stop sentinel, and each has been replaced by one thread.
C34_Witness ==
    /\ mainPc = "wait"
    /\ wpc[1] = "dead"
    /\ worker_thread = 2
    /\ WorkerAlive(2)
    /\ dispatchers = [ alive |-> 1, started |-> 2 ]
    /\ hotkey_dispatcher = "alive"

\* ---------------------------------------------------------------------------
\* C35: stop() sets the stop request and, when a dispatcher is alive, puts one
\* sentinel on the event channel; the dispatcher handles every event queued ahead
\* of the sentinel and then terminates on the sentinel without handling it as an
\* event.

\* The HotkeyEvents of a channel, in order, without the sentinels.
RECURSIVE EventsOf(_)
EventsOf(q) ==
    IF q = << >> THEN << >>
    ELSE IF Head(q) = StopSentinel THEN EventsOf(Tail(q))
    ELSE << Head(q) >> \o EventsOf(Tail(q))

SentinelWaiting == \E i \in 1 .. Len(hotkey_event_queue) : hotkey_event_queue[i] = StopSentinel

C35_StopAndSentinelSteps ==
    /\ (ctlPc = "st_set" /\ ctlPc' = "st_put") => stop_event'
    /\ (ctlPc = "st_put" /\ ctlPc' = "idle") =>
          hotkey_event_queue' = IF hotkey_dispatcher = "alive"
                                   THEN Append(hotkey_event_queue, StopSentinel)
                                   ELSE hotkey_event_queue
    /\ (hotkey_dispatcher = "alive" /\ hotkey_dispatcher' = "dead") =>
          /\ Head(hotkey_event_queue) = StopSentinel
          /\ hotkey_event_queue' = Tail(hotkey_event_queue)
          /\ handledLog' = handledLog
          /\ channelLog = handledLog \o EventsOf(hotkey_event_queue')

C35_SentinelNeverHandled ==
    \A i \in 1 .. Len(handledLog) : handledLog[i] # StopSentinel

C35_SentinelEndsDispatcher ==
    /\ [][C35_StopAndSentinelSteps]_vars
    /\ [] C35_SentinelNeverHandled
    /\ (hotkey_dispatcher = "alive" /\ SentinelWaiting) ~> (hotkey_dispatcher = "dead")

\* The dispatcher has handled two events and ended on the sentinel of a stop();
\* the main loop has returned.
C35_Witness ==
    /\ mainPc = "done"
    /\ stop_event
    /\ hotkey_dispatcher = "dead"
    /\ Len(channelLog) = 2
    /\ handledLog = channelLog
    /\ hotkey_event_queue = << >>

\* ---------------------------------------------------------------------------
\* C36: whenever the main loop is blocked waiting for a stop request, a live
\* dispatcher thread is consuming the event channel: no interleaving of stop(),
\* reboot() and sentinels left on the channel leaves the app running an iteration
\* without a dispatcher.
C36_WaitingLoopHasDispatcher ==
    (mainPc = "wait" /\ ~stop_event) => hotkey_dispatcher = "alive"

\* ---------------------------------------------------------------------------
\* C37: the (src, dest) pair of every clipboard-triggered request equals the
\* language state as it was at one single instant: a language toggle or set
\* running concurrently with the copy path never yields a request that mixes the
\* old source with the new destination or the new source with the old
\* destination.

\* The copy path puts its request in this step.
CopyPutStep == copy_read.pc = "dest" /\ copy_read'.pc = "idle"

C37_PairOfOneInstant ==
    CopyPutStep =>
        << request_queue'[Len(request_queue')].src,
           request_queue'[Len(request_queue')].dest >> \in copy_read.seen

C37_PairReadAtOneInstant == [][C37_PairOfOneInstant]_vars

\* ---------------------------------------------------------------------------
\* C38: reboot() and the restart iteration of the main loop leave the request
\* queue and the worker untouched: every request enqueued before or during a
\* reboot is still processed exactly once, in enqueue order, and the last
\* original text and the language state are unchanged by the reboot.

\* A statement of reboot() or of the main loop runs in this step.
RebootOrLoopStep == ctlPc' # ctlPc \/ mainPc' # mainPc

C38_RebootFrame ==
    RebootOrLoopStep =>
        /\ request_queue' = request_queue
        /\ enqueued' = enqueued
        /\ taken' = taken
        /\ wreq' = wreq
        /\ calls' = calls
        /\ rendered' = rendered
        /\ outcome' = outcome
        /\ last_original_text' = last_original_text
        /\ source_language' = source_language
        /\ dest_language' = dest_language
        /\ WorkerAlive(worker_thread) => worker_thread' = worker_thread /\ wpc' = wpc

\* Every request enqueued is waiting in the queue, in order, or was taken once,
\* in order, and then called and rendered at most once.
C38_NothingLostNothingTwice ==
    /\ \A i \in 1 .. Len(taken) : taken[i] = i
    /\ request_queue = SubSeq(enqueued, Len(taken) + 1, Len(enqueued))
    /\ \A k \in 1 .. Len(enqueued) :
          /\ Cardinality(RendersOf(k)) <= 1
          /\ Cardinality(CallsOf(k)) <= 1
          /\ outcome[k] = "ok" => Cardinality(RendersOf(k)) = 1

C38_RebootLeavesPipeline == [][C38_RebootFrame]_vars /\ [] C38_NothingLostNothingTwice

\* The loop has restarted after a reboot() and waits again; two requests were
\* processed in order, by the same worker, the second on the translator built
\* after the reset.
C38_Witness ==
    /\ callsLeft = 0 /\ ctlPc = "idle"
    /\ mainPc = "wait" /\ ~stop_event /\ ~restart_event
    /\ Len(enqueued) = 2 /\ request_queue = << >>
    /\ outcome[1] = "ok" /\ outcome[2] = "ok"
    /\ Len(calls) = 2 /\ calls[1].inst # calls[2].inst
    /\ worker_thread = 1
    /\ last_original_text = Hello

\* ---------------------------------------------------------------------------
\* C39: at most one capture service is started at any moment: the service of one
\* main-loop iteration is stopped before the next iteration creates its service,
\* and when start() of the app returns no capture service is running and the app
\* holds no service reference.
C39_AtMostOneCaptureService ==
    /\ Cardinality(capture_threads) <= 1
    /\ mainPc = "service" => capture_threads = { }
    /\ mainPc = "done" => capture_threads = { } /\ hotkey_service = 0

\* ---------------------------------------------------------------------------
\* C40: the worker records a request's text as the last original text before it
\* calls the translator, on success and on error alike; the text of every
\* retranslation request is therefore the text of a request the worker had
\* already started processing when the language-change handler ran, never the
\* text of a request still waiting in the queue.

\* The requests whose text a worker has recorded, by seq: those taken, but for
\* one a worker is about to record.
RecordedRequests ==
    { k \in 1 .. Len(enqueued) :
         /\ \E i \in 1 .. Len(taken) : taken[i] = k
         /\ ~\E w \in Threads : wpc[w] = "record" /\ wreq[w].seq = k }

\* The text of the request recorded last, None when none was.
LatestRecordedText ==
    IF RecordedRequests = { } THEN None
    ELSE enqueued[CHOOSE k \in RecordedRequests : \A j \in RecordedRequests : j <= k].text

\* Two values that are each a text or None are the same.
SameText(a, b) == IF a = None THEN b = None ELSE b # None /\ a = b

C40_RecordedBeforeCall ==
    /\ SameText(last_original_text, LatestRecordedText)
    /\ \A w \in Threads :
          wpc[w] \in { "fetch", "factory", "call", "translating" }
              => SameText(last_original_text, wreq[w].text)

C40_HandlerStep ==
    /\ (ui.pc = "idle" /\ ui'.pc = "put") => SameText(ui'.last_text, LatestRecordedText)
    /\ (ui.pc = "put" /\ ui'.pc = "idle" /\ nEnq' # nEnq) =>
          /\ SameText(request_queue'[Len(request_queue')].text, ui.last_text)
          /\ \E i \in 1 .. Len(taken) :
                enqueued[taken[i]].text = request_queue'[Len(request_queue')].text
    /\ \A w \in Threads :
          (wpc[w] = "translating" /\ wpc'[w] # "translating")
              => SameText(last_original_text', wreq[w].text)

C40_RetranslatesStartedText == [] C40_RecordedBeforeCall /\ [][C40_HandlerStep]_vars

\* A handler changed the language while the worker was still translating "world":
\* the retranslation waiting in the queue is of "world".
C40_Witness ==
    /\ Len(enqueued) = 2
    /\ enqueued[1].text = World /\ enqueued[1].reposition
    /\ taken = << 1 >>
    /\ \E w \in Threads : wpc[w] = "translating" /\ wreq[w].seq = 1
    /\ outcome[1] = "none"
    /\ ~enqueued[2].reposition /\ enqueued[2].text = World
    /\ request_queue = << enqueued[2] >>
    /\ last_original_text = World

====
